---- MODULE Spec2Model ----
(***************************************************************************)
(* A model of pyTMD: constituent name resolution and Doodson numbers,      *)
(* the Dataset accessor, the FES constant extraction and the tide_*        *)
(* entry points of compute.py, the model class and its definition files,   *)
(* Model.interp, the downloads of utilities.py, the ATLAS netCDF files,    *)
(* and the readers read_ascii_file, read_iers_EOP and url_split.           *)
(* Character strings that the code takes apart are sequences of            *)
(* one-character strings.                                                  *)
(***************************************************************************)
EXTENDS Integers, Sequences, FiniteSets, TLC

VARIABLES
  \* _parse_name (SpecNames)
  name,         \* the constituent name or alias n the caller starts from
  constituent,  \* the string handed to _parse_name
  parsed,       \* what _parse_name returned (or raised)
  reparsed,     \* what _parse_name returned for its own result
  namePc,
  \* doodson_number and its inverse (SpecDoodson)
  key,            \* the constituent the test looks at
  isstr,          \* isinstance(constituents, str)
  constituents,   \* the name (a list of one) or names given to doodson_number
  numbers,        \* the Doodson number of each name given
  coefficients,   \* what _from_doodson_number returned
  constituent_id, \* what _to_constituent_id returned
  doodsonPc,
  \* the Dataset accessor of io/dataset.py (SpecDataset)
  data_vars,    \* the names of the variables of the dataset, in order
  method,       \* the accessor method called
  subset_c,     \* the argument c of subset
  output,       \* the names returned, or of the variables of the result
  exception,    \* the exception the call raised, if it raised
  datasetPc,
  \* tide_elevations and tide_currents of compute.py (SpecCompute)
  function,           \* which of the two is called
  CORRECTIONS,        \* the keyword arguments of the call
  INFER_MINOR,
  MINOR_CONSTITUENTS,
  delta_time,
  model_corrections,  \* model.corrections, the default of the model
  deltat,             \* the delta times (TT - UT1) the call settled on
  interp_calls,       \* the calls made to Dataset.interp, predict and infer
  predict_calls,
  infer_calls,
  raised,             \* the exception that ended the call, if one did
  computePc,
  DIRECTORY,          \* further keyword arguments of the call
  MODEL,
  CONSTITUENTS,
  TYPE,
  x_arg,              \* the coordinates x and y of the call
  y_arg,
  ds_constituents,    \* the constituents of the dataset opened and subset
  XY,                 \* the coordinates X, Y handed to Dataset.interp
  tide,               \* what the call returned
  \* extract_constants of io/FES.py and the prediction from its output (SpecFES)
  ilon,               \* the coordinates of the points asked for
  ilat,
  hc_mask,            \* per constituent file, the mask of the model grid
  fes_method,         \* the keyword arguments method, extrapolate, cutoff
  extrapolate,
  cutoff,
  amplitude_mask,     \* the masks returned, by point and constituent
  ph_mask,
  tide_mask,          \* the mask of the predicted tide, by point
  interpolated_mask,  \* the masks of read_constants and interpolate_constants
  interpolate_raised, \* the exception that ended interpolate_constants
  fesPc,
  \* the harmonic prediction (SpecPredict)
  pair,               \* the two constituents predicted, together and alone
  harmonic_constants, \* by point, the constants of the two
  tide_time,          \* the time of the prediction
  convention,         \* the convention of the nodal corrections
  predicted,          \* the predictions with both, the first, the second
  predictPc,
  \* amplitudes, phases and angles (SpecPhase)
  hc_value,           \* a complex harmonic constant, in thousandths
  angle,              \* an angle in degrees
  operation,          \* what was computed from them
  amplitude_out,      \* the amplitude, in thousandths, and the phase
  phase_out,
  phasePc,
  \* the model class of pyTMD/model.py and its definition files (SpecModel)
  directory,          \* the arguments of model(directory, compressed=...)
  compressed,
  model_name,         \* the model asked of elevation
  tide_model,         \* the attributes of the model object
  fields,             \* the attributes written to the definition file
  definition,         \* the lines of the definition file
  loaded,             \* the attributes of the model from_file returned
  model_raised,       \* the exception that ended elevation or from_file
  modelPc,
  \* Model.interp and Dataset.interp of one model grid (SpecInterp)
  grid_x,             \* the x-coordinates of the grid in the model files
  geographic,         \* crs.is_geographic of the model
  stored,             \* the _ds of the Model object, once there is one
  opens,              \* the keyword arguments of every open_dataset call
  tmd_x,              \* the _ds.x of the accessor of a Dataset of the grid
  interp_result,      \* the call last made and the dataset it interpolated
  model_calls,        \* Model.interp calls made
  dataset_calls,      \* Dataset.interp calls made on the accessor
  \* from_http and from_ftp of utilities.py (SpecDownload)
  remote_content,     \* the bytes of the remote file
  reachable,          \* whether the host answers
  local_given,        \* whether a local path is given
  hash_arg,           \* the hash supplied
  chunk,              \* the chunk size of the transfer
  local_before,       \* the local file before the call
  local_file,         \* the local file
  remote_buffer,      \* the BytesIO returned: its value and its position
  file_writes,        \* the times the local file was opened for writing
  download_raised,
  downloadPc,
  \* the atlas accessor and open_atlas_dataset of xio/ATLAS.py (SpecAtlas)
  atlas_ds,           \* the type 'z' Dataset: its constituents and their hc
  atlas_directory,    \* the constituent files of the output directory
  atlas_read,         \* the Dataset open_atlas_dataset returned
  atlas_raised,
  atlasPc,
  \* read_ascii_file of io/FES.py (SpecAscii)
  nlon,               \* the grid dimensions of the header
  nlat,
  file_contents,      \* the lines of the file after the five of the header
  ascii_read,         \* what the reading loop came to
  asciiPc,
  \* read_iers_EOP (SpecEOP)
  eop_lines,          \* the flag of each line of the file
  eop_flag,           \* flag
  eop_counter,        \* counter
  dinput,             \* how many values of MJD, x and y are kept
  eop_raised,
  eopPc,
  \* url_split of utilities.py (SpecUrl)
  url,                \* the string url_split is called with
  url_s,              \* the argument s of the innermost call
  url_tails,          \* the tails the calls that wait will append
  url_depth,          \* the calls that wait
  url_result,         \* the tuple returned
  url_raised,
  urlPc

namesVars == <<name, constituent, parsed, reparsed, namePc>>
doodsonVars ==
  <<key, isstr, constituents, numbers, coefficients, constituent_id, doodsonPc>>

datasetVars == <<data_vars, method, subset_c, output, exception, datasetPc>>

computeVars ==
  <<function, CORRECTIONS, INFER_MINOR, MINOR_CONSTITUENTS, delta_time,
    model_corrections, deltat, interp_calls, predict_calls, infer_calls,
    raised, computePc, DIRECTORY, MODEL, CONSTITUENTS, TYPE, x_arg, y_arg,
    ds_constituents, XY, tide>>

fesVars ==
  <<ilon, ilat, hc_mask, fes_method, extrapolate, cutoff, amplitude_mask,
    ph_mask, tide_mask, interpolated_mask, interpolate_raised, fesPc>>

predictVars ==
  <<pair, harmonic_constants, tide_time, convention, predicted, predictPc>>

phaseVars ==
  <<hc_value, angle, operation, amplitude_out, phase_out, phasePc>>

modelVars ==
  <<directory, compressed, model_name, tide_model, fields, definition,
    loaded, model_raised, modelPc>>

interpVars ==
  <<grid_x, geographic, stored, opens, tmd_x, interp_result,
    model_calls, dataset_calls>>

downloadVars ==
  <<remote_content, reachable, local_given, hash_arg, chunk,
    local_before, local_file, remote_buffer, file_writes,
    download_raised, downloadPc>>

atlasVars ==
  <<atlas_ds, atlas_directory, atlas_read, atlas_raised, atlasPc>>

asciiVars ==
  <<nlon, nlat, file_contents, ascii_read, asciiPc>>

eopVars ==
  <<eop_lines, eop_flag, eop_counter, dinput, eop_raised, eopPc>>

urlVars ==
  <<url, url_s, url_tails, url_depth, url_result, url_raised, urlPc>>

vars ==
  <<namesVars, doodsonVars, datasetVars, computeVars, fesVars, predictVars,
    phaseVars, modelVars,
    interpVars,
    downloadVars,
    atlasVars,
    asciiVars,
    eopVars,
    urlVars>>

\* what a step of one part of the library leaves alone
NamesFrame ==
  UNCHANGED <<doodsonVars, datasetVars, computeVars, fesVars, predictVars, phaseVars,
              modelVars,
              interpVars,
              downloadVars,
              atlasVars,
              asciiVars,
              eopVars,
              urlVars>>
DoodsonFrame ==
  UNCHANGED <<namesVars, datasetVars, computeVars, fesVars, predictVars, phaseVars,
              modelVars,
              interpVars,
              downloadVars,
              atlasVars,
              asciiVars,
              eopVars,
              urlVars>>
DatasetFrame ==
  UNCHANGED <<namesVars, doodsonVars, computeVars, fesVars, predictVars, phaseVars,
              modelVars,
              interpVars,
              downloadVars,
              atlasVars,
              asciiVars,
              eopVars,
              urlVars>>
ComputeFrame ==
  UNCHANGED <<namesVars, doodsonVars, datasetVars, fesVars, predictVars, phaseVars,
              modelVars,
              interpVars,
              downloadVars,
              atlasVars,
              asciiVars,
              eopVars,
              urlVars>>
FESFrame ==
  UNCHANGED <<namesVars, doodsonVars, datasetVars, computeVars, predictVars, phaseVars,
              modelVars,
              interpVars,
              downloadVars,
              atlasVars,
              asciiVars,
              eopVars,
              urlVars>>
PredictFrame ==
  UNCHANGED <<namesVars, doodsonVars, datasetVars, computeVars, fesVars,
              phaseVars, modelVars,
              interpVars,
              downloadVars,
              atlasVars,
              asciiVars,
              eopVars,
              urlVars>>
PhaseFrame ==
  UNCHANGED <<namesVars, doodsonVars, datasetVars, computeVars, fesVars,
              predictVars, modelVars,
              interpVars,
              downloadVars,
              atlasVars,
              asciiVars,
              eopVars,
              urlVars>>
ModelFrame ==
  UNCHANGED <<namesVars, doodsonVars, datasetVars, computeVars, fesVars,
              predictVars, phaseVars,
              interpVars,
              downloadVars,
              atlasVars,
              asciiVars,
              eopVars,
              urlVars>>
InterpFrame ==
  UNCHANGED <<namesVars, doodsonVars, datasetVars,
              computeVars, fesVars, predictVars, phaseVars,
              modelVars,
              downloadVars,
              atlasVars,
              asciiVars,
              eopVars,
              urlVars>>
DownloadFrame ==
  UNCHANGED <<namesVars, doodsonVars, datasetVars,
              computeVars, fesVars, predictVars, phaseVars,
              modelVars, interpVars,
              atlasVars,
              asciiVars,
              eopVars,
              urlVars>>
AtlasFrame ==
  UNCHANGED <<namesVars, doodsonVars, datasetVars,
              computeVars, fesVars, predictVars, phaseVars,
              modelVars, interpVars, downloadVars,
              asciiVars,
              eopVars,
              urlVars>>
AsciiFrame ==
  UNCHANGED <<namesVars, doodsonVars, datasetVars,
              computeVars, fesVars, predictVars, phaseVars,
              modelVars, interpVars, downloadVars, atlasVars,
              eopVars,
              urlVars>>
EOPFrame ==
  UNCHANGED <<namesVars, doodsonVars, datasetVars,
              computeVars, fesVars, predictVars, phaseVars,
              modelVars, interpVars, downloadVars,
              atlasVars, asciiVars,
              urlVars>>
UrlFrame ==
  UNCHANGED <<namesVars, doodsonVars, datasetVars,
              computeVars, fesVars, predictVars, phaseVars,
              modelVars, interpVars, downloadVars,
              atlasVars, asciiVars, eopVars>>

\* a name no call has returned yet, and the exception _parse_name raises for
\* a string it cannot resolve; neither is a sequence of characters
None == <<"None">>
ValueError == <<"ValueError">>

----------------------------------------------------------------------------
(* sequences *)

Range(s) == {s[i] : i \in DOMAIN s}

----------------------------------------------------------------------------
(* Constituent names: pyTMD.constituents._parse_name *)

\* names the parser has to return unchanged (test_constituents)
cindex ==
  <<
    <<"s","a">>, <<"s","s","a">>, <<"m","m">>, <<"m","s","f">>,
    <<"m","t">>, <<"m","f">>, <<"a","l","p","h","a","1">>, <<"2","q","1">>,
    <<"s","i","g","m","a","1">>, <<"q","1">>, <<"r","h","o","1">>, <<"o","1">>,
    <<"t","a","u","1">>, <<"m","1">>, <<"c","h","i","1">>, <<"p","i","1">>,
    <<"p","1">>, <<"s","1">>, <<"k","1">>, <<"p","s","i","1">>,
    <<"p","h","i","1">>, <<"b","e","t","a","1">>, <<"t","h","e","t","a","1">>, <<"j","1">>,
    <<"o","o","1">>, <<"2","n","2">>, <<"m","u","2">>, <<"n","2">>,
    <<"n","u","2">>, <<"m","2">>, <<"m","2","a">>, <<"m","2","b">>,
    <<"l","a","m","b","d","a","2">>, <<"l","2">>, <<"t","2">>, <<"s","2">>,
    <<"a","l","p","h","a","2">>, <<"b","e","t","a","2">>, <<"d","e","l","t","a","2">>, <<"g","a","m","m","a","2">>,
    <<"r","2">>, <<"k","2">>, <<"e","t","a","2">>, <<"m","n","s","2">>,
    <<"2","s","m","2">>, <<"m","3">>, <<"m","k","3">>, <<"s","3">>,
    <<"m","n","4">>, <<"m","4">>, <<"m","s","4">>, <<"m","k","4">>,
    <<"s","o","1">>, <<"s","4">>, <<"s","5">>, <<"m","6">>,
    <<"s","6">>, <<"s","7">>, <<"s","8">>, <<"m","8">>,
    <<"m","k","s","2">>, <<"m","s","q","m">>, <<"m","t","m">>, <<"n","4">>,
    <<"e","p","s","2">>, <<"u","p","s","1">>, <<"z","0">>, <<"n","o","d","e">>
  >>

\* names of the 3rd degree terms carry the GOT prime (test_doodson)
primed ==
  <<
    <<"2","q","1","'">>, <<"q","1","'">>, <<"o","1","'">>, <<"m","1","'">>,
    <<"k","1","'">>, <<"j","1","'">>, <<"2","n","2","'">>, <<"n","2","'">>,
    <<"m","2","'">>, <<"l","2","'">>, <<"m","3","'">>, <<"s","3","'">>
  >>

\* known remapped cases: (alias, canonical name) (test_remapping)
mapping_with_canonical_key ==
  <<
    <<<<"l","a","2">>, <<"l","a","m","b","d","a","2">>>>,
    <<<<"o","m","0">>, <<"n","o","d","e">>>>,
    <<<<"l","a","m","b","d","a","2">>, <<"l","2">>>>
  >>

mapping ==
  <<
    <<<<"2","n">>, <<"2","n","2">>>>, <<<<"a","l","p","1">>, <<"a","l","p","h","a","1">>>>,
    <<<<"a","l","p","2">>, <<"a","l","p","h","a","2">>>>, <<<<"b","e","t","1">>, <<"b","e","t","a","1">>>>,
    <<<<"b","e","t","2">>, <<"b","e","t","a","2">>>>, <<<<"d","e","l","2">>, <<"d","e","l","t","a","2">>>>,
    <<<<"e","2">>, <<"e","p","s","2">>>>, <<<<"e","p","2">>, <<"e","p","s","2">>>>,
    <<<<"g","a","m","2">>, <<"g","a","m","m","a","2">>>>, <<<<"l","a","2">>, <<"l","a","m","b","d","a","2">>>>,
    <<<<"l","a","m","2">>, <<"l","a","m","b","d","a","2">>>>, <<<<"l","m","2">>, <<"l","a","m","b","d","a","2">>>>,
    <<<<"m","s","q">>, <<"m","s","q","m">>>>, <<<<"o","m","e","g","a","0">>, <<"n","o","d","e">>>>,
    <<<<"o","m","0">>, <<"n","o","d","e">>>>, <<<<"r","h","o">>, <<"r","h","o","1">>>>,
    <<<<"s","i","g","1">>, <<"s","i","g","m","a","1">>>>, <<<<"t","h","e">>, <<"t","h","e","t","a","1">>>>,
    <<<<"t","h","e","1">>, <<"t","h","e","t","a","1">>>>
  >>

\* strings that are no constituent name
unlisted ==
  <<
    <<"b","a","t","h","y","m","e","t","r","y">>, <<"m","a","s","k">>,
    <<"x","9">>, <<"_">>, <<>>
  >>

\* str.upper and str.lower on the letters constituent names are made of
letters ==
  <<
    <<"a","A">>, <<"b","B">>, <<"c","C">>, <<"d","D">>, <<"e","E">>,
    <<"f","F">>, <<"g","G">>, <<"h","H">>, <<"i","I">>, <<"j","J">>,
    <<"k","K">>, <<"l","L">>, <<"m","M">>, <<"n","N">>, <<"o","O">>,
    <<"p","P">>, <<"q","Q">>, <<"r","R">>, <<"s","S">>, <<"t","T">>,
    <<"u","U">>, <<"v","V">>, <<"w","W">>, <<"x","X">>, <<"y","Y">>,
    <<"z","Z">>
  >>

digits == {"0", "1", "2", "3", "4", "5", "6", "7", "8", "9"}

upper_char(c) ==
  IF \E p \in Range(letters) : p[1] = c
    THEN (CHOOSE p \in Range(letters) : p[1] = c)[2]
    ELSE c

lower_char(c) ==
  IF \E p \in Range(letters) : p[2] = c
    THEN (CHOOSE p \in Range(letters) : p[2] = c)[1]
    ELSE c

upper(s) == [i \in DOMAIN s |-> upper_char(s[i])]

lower_identity(s) == s

lower(s) == [i \in DOMAIN s |-> lower_char(s[i])]

\* the characters a constituent name is made of: letters, digits, the prime
isnamechar(c) ==
  \/ \E p \in Range(letters) : c \in {p[1], p[2]}
  \/ c \in digits
  \/ c = "'"

\* the string without the padding around the name
RECURSIVE lstrip(_)
lstrip(s) ==
  IF s = <<>> \/ isnamechar(Head(s)) THEN s ELSE lstrip(Tail(s))

RECURSIVE rstrip(_)
rstrip(s) ==
  IF s = <<>> \/ isnamechar(s[Len(s)]) THEN s
  ELSE rstrip(SubSeq(s, 1, Len(s) - 1))

strip(s) == rstrip(lstrip(s))

\* the first remapped case the name equals, else the name itself
remap(s) ==
  IF \E i \in DOMAIN mapping : mapping[i][1] = s
    THEN mapping[CHOOSE i \in DOMAIN mapping :
           /\ mapping[i][1] = s
           /\ \A j \in 1..(i - 1) : mapping[j][1] # s][2]
    ELSE s

\* the names of the table of coefficients
catalog == Range(cindex) \cup Range(primed)

_parse_name(s) ==
  LET c == remap(strip(lower(s)))
  IN  IF c \in catalog THEN c ELSE ValueError

\* the four spellings test_constituents and test_remapping try
PadWidth == 10

spaces(n) == [i \in 1..n |-> " "]

ljust(s, width) ==
  IF Len(s) >= width THEN s ELSE s \o spaces(width - Len(s))

spellings(s) ==
  [standard |-> s,
   uppercase |-> upper(s),
   underscores |-> <<"_">> \o s \o <<"_">>,
   padded |-> ljust(s, PadWidth)]

aliases == {mapping[i][1] : i \in DOMAIN mapping}

NamesInit ==
  /\ name \in catalog \cup aliases \cup Range(unlisted)
  /\ \E k \in DOMAIN spellings(name) : constituent = spellings(name)[k]
  /\ parsed = None
  /\ reparsed = None
  /\ namePc = "call"

parse ==
  /\ namePc = "call"
  /\ parsed' = _parse_name(constituent)
  /\ namePc' = IF parsed' = ValueError THEN "raised" ELSE "parsed"
  /\ UNCHANGED <<name, constituent, reparsed>>
  /\ NamesFrame

\* the caller resolves the name it was given back
parse_again ==
  /\ namePc = "parsed"
  /\ reparsed' = _parse_name(parsed)
  /\ namePc' = "reparsed"
  /\ UNCHANGED <<name, constituent, parsed>>
  /\ NamesFrame

NamesNext == parse \/ parse_again

----------------------------------------------------------------------------
(* Doodson numbers: pyTMD.constituents.doodson_number,                     *)
(* _to_doodson_number, _from_doodson_number and _to_constituent_id         *)

\* A Doodson number is a float (kept in thousandths: 255.555 is 255555)
\* or, when a digit is ten or more, a string such as '3X1.555'
Float(n) == [kind |-> "float", value |-> n, text |-> <<>>]
Str(s) == [kind |-> "str", value |-> 0, text |-> s]
NoNumber == [kind |-> "None", value |-> 0, text |-> <<>>]

\* expected Doodson numbers (test_doodson)
exp ==
  <<
    <<"m2", Float(255555)>>, <<"s2", Float(273555)>>, <<"n2", Float(245655)>>,
    <<"nu2", Float(247455)>>, <<"mu2", Float(237555)>>, <<"2n2", Float(235755)>>,
    <<"lambda2", Float(263655)>>, <<"l2", Float(265455)>>, <<"k2", Float(275555)>>,
    <<"m1", Float(155555)>>, <<"s1", Float(164555)>>, <<"o1", Float(145555)>>,
    <<"oo1", Float(185555)>>, <<"k1", Float(165555)>>, <<"q1", Float(135655)>>,
    <<"2q1", Float(125755)>>, <<"p1", Float(163555)>>, <<"mm", Float(65455)>>,
    <<"ssa", Float(57555)>>, <<"msf", Float(73555)>>, <<"mf", Float(75555)>>,
    <<"msqm", Float(93555)>>, <<"mtm", Float(85455)>>, <<"node", Float(55565)>>,
    <<"m3", Float(355555)>>, <<"m4", Float(455555)>>, <<"m6", Float(655555)>>,
    <<"m8", Float(855555)>>, <<"2so3", Str(<<"3","X","1",".","5","5","5">>)>>, <<"2jp3", Str(<<"3","X","3",".","3","5","5">>)>>,
    <<"kso3", Str(<<"3","X","3",".","5","5","5">>)>>, <<"2jk3", Str(<<"3","X","4",".","3","5","5">>)>>, <<"2ko3", Str(<<"3","X","5",".","5","5","5">>)>>,
    <<"2q1'", Float(125655)>>, <<"q1'", Float(135555)>>, <<"o1'", Float(145655)>>,
    <<"m1'", Float(155555)>>, <<"k1'", Float(165455)>>, <<"j1'", Float(175555)>>,
    <<"2n2'", Float(235655)>>, <<"n2'", Float(245555)>>, <<"m2'", Float(255655)>>,
    <<"l2'", Float(265555)>>, <<"m3'", Float(355555)>>, <<"lambda3", Float(363655)>>,
    <<"l3", Float(365455)>>, <<"l3b", Float(365655)>>, <<"f3", Float(375555)>>,
    <<"j3", Float(375555)>>, <<"s3'", Float(382555)>>
  >>

\* the table of Cartwright coefficients (tau, s, h, p, N', p') of the
\* constituents of test_doodson, in the order of the table
doodson_json ==
  <<
    <<"m2", <<2, 0, 0, 0, 0, 0>>>>, <<"s2", <<2, 2, -2, 0, 0, 0>>>>,
    <<"n2", <<2, -1, 0, 1, 0, 0>>>>, <<"nu2", <<2, -1, 2, -1, 0, 0>>>>,
    <<"mu2", <<2, -2, 2, 0, 0, 0>>>>, <<"2n2", <<2, -2, 0, 2, 0, 0>>>>,
    <<"lambda2", <<2, 1, -2, 1, 0, 0>>>>, <<"l2", <<2, 1, 0, -1, 0, 0>>>>,
    <<"k2", <<2, 2, 0, 0, 0, 0>>>>, <<"m1", <<1, 0, 0, 0, 0, 0>>>>,
    <<"s1", <<1, 1, -1, 0, 0, 0>>>>, <<"o1", <<1, -1, 0, 0, 0, 0>>>>,
    <<"oo1", <<1, 3, 0, 0, 0, 0>>>>, <<"k1", <<1, 1, 0, 0, 0, 0>>>>,
    <<"q1", <<1, -2, 0, 1, 0, 0>>>>, <<"2q1", <<1, -3, 0, 2, 0, 0>>>>,
    <<"p1", <<1, 1, -2, 0, 0, 0>>>>, <<"mm", <<0, 1, 0, -1, 0, 0>>>>,
    <<"ssa", <<0, 0, 2, 0, 0, 0>>>>, <<"msf", <<0, 2, -2, 0, 0, 0>>>>,
    <<"mf", <<0, 2, 0, 0, 0, 0>>>>, <<"msqm", <<0, 4, -2, 0, 0, 0>>>>,
    <<"mtm", <<0, 3, 0, -1, 0, 0>>>>, <<"node", <<0, 0, 0, 0, 1, 0>>>>,
    <<"m3", <<3, 0, 0, 0, 0, 0>>>>, <<"m4", <<4, 0, 0, 0, 0, 0>>>>,
    <<"m6", <<6, 0, 0, 0, 0, 0>>>>, <<"m8", <<8, 0, 0, 0, 0, 0>>>>,
    <<"2so3", <<3, 5, -4, 0, 0, 0>>>>, <<"2jp3", <<3, 5, -2, -2, 0, 0>>>>,
    <<"kso3", <<3, 5, -2, 0, 0, 0>>>>, <<"2jk3", <<3, 5, -1, -2, 0, 0>>>>,
    <<"2ko3", <<3, 5, 0, 0, 0, 0>>>>, <<"2q1'", <<1, -3, 0, 1, 0, 0>>>>,
    <<"q1'", <<1, -2, 0, 0, 0, 0>>>>, <<"o1'", <<1, -1, 0, 1, 0, 0>>>>,
    <<"m1'", <<1, 0, 0, 0, 0, 0>>>>, <<"k1'", <<1, 1, 0, -1, 0, 0>>>>,
    <<"j1'", <<1, 2, 0, 0, 0, 0>>>>, <<"2n2'", <<2, -2, 0, 1, 0, 0>>>>,
    <<"n2'", <<2, -1, 0, 0, 0, 0>>>>, <<"m2'", <<2, 0, 0, 1, 0, 0>>>>,
    <<"l2'", <<2, 1, 0, 0, 0, 0>>>>, <<"m3'", <<3, 0, 0, 0, 0, 0>>>>,
    <<"lambda3", <<3, 1, -2, 1, 0, 0>>>>, <<"l3", <<3, 1, 0, -1, 0, 0>>>>,
    <<"l3b", <<3, 1, 0, 1, 0, 0>>>>, <<"f3", <<3, 2, 0, 0, 0, 0>>>>,
    <<"j3", <<3, 2, 0, 0, 0, 0>>>>, <<"s3'", <<3, 3, -3, 0, 0, 0>>>>
  >>

names == [i \in DOMAIN doodson_json |-> doodson_json[i][1]]

\* the constituent the table does not list
unsupported == "xx"

coefficients_table(c) ==
  doodson_json[CHOOSE i \in DOMAIN doodson_json : doodson_json[i][1] = c][2]

\* the digits of a Doodson number: the first coefficient as it is, the
\* other five raised by 5 to keep them from being negative
doodson_digits_all_raised(coef) == [o \in 1..6 |-> coef[o] + 5]

doodson_digits(coef) == [o \in 1..6 |-> IF o = 1 THEN coef[o] ELSE coef[o] + 5]

\* the characters of the digits above 9
digit_char(v) ==
  CASE v = 10 -> "X"
    [] v = 11 -> "E"
    [] v = 12 -> "T"
    [] v = 0 -> "0" [] v = 1 -> "1" [] v = 2 -> "2" [] v = 3 -> "3"
    [] v = 4 -> "4" [] v = 5 -> "5" [] v = 6 -> "6" [] v = 7 -> "7"
    [] v = 8 -> "8" [] v = 9 -> "9"

char_digit(c) == CHOOSE v \in 0..12 : digit_char(v) = c

RECURSIVE pow10(_)
pow10(n) == IF n = 0 THEN 1 ELSE 10 * pow10(n - 1)

RECURSIVE sum(_)
sum(s) == IF s = <<>> THEN 0 ELSE Head(s) + sum(Tail(s))

\* the result is a record: [error |-> TRUE] for an unsupported constituent
_to_doodson_number(coef) ==
  LET d == doodson_digits(coef)
  IN  IF \E o \in 1..6 : d[o] < 0 \/ d[o] > 12
        THEN [error |-> TRUE, DO |-> NoNumber]
      ELSE IF \E o \in 1..6 : d[o] >= 10
        THEN [error |-> FALSE,
              DO |-> Str(<<digit_char(d[1]), digit_char(d[2]), digit_char(d[3]),
                           ".",
                           digit_char(d[4]), digit_char(d[5]), digit_char(d[6])>>)]
      ELSE [error |-> FALSE,
            DO |-> Float(sum([o \in 1..6 |-> d[o] * pow10(6 - o)]))]

from_doodson_keep_offset(DO) ==
  IF DO.kind = "float"
    THEN [o \in 1..6 |-> (DO.value % pow10(7 - o)) \div pow10(6 - o)]
    ELSE LET t == DO.text
             d == <<t[1], t[2], t[3], t[5], t[6], t[7]>>
         IN  [o \in 1..6 |-> char_digit(d[o])]

\* the coefficients a Doodson number encodes; it takes any number, shared
\* by several constituents or not, and needs nothing else (test_doodson)
_from_doodson_number(DO) ==
  LET digit ==
        IF DO.kind = "float"
          THEN [o \in 1..6 |-> (DO.value % pow10(7 - o)) \div pow10(6 - o)]
          ELSE LET t == DO.text
                   d == <<t[1], t[2], t[3], t[5], t[6], t[7]>>
               IN  [o \in 1..6 |-> char_digit(d[o])]
  IN  [o \in 1..6 |-> IF o = 1 THEN digit[o] ELSE digit[o] - 5]

to_constituent_id_last(coef) ==
  IF \E i \in DOMAIN doodson_json : doodson_json[i][2] = coef
    THEN doodson_json[CHOOSE i \in DOMAIN doodson_json :
           /\ doodson_json[i][2] = coef
           /\ \A j \in DOMAIN doodson_json :
                j > i => doodson_json[j][2] # coef][1]
    ELSE "ValueError"

\* the first constituent of the table with these coefficients
_to_constituent_id(coef) ==
  IF \E i \in DOMAIN doodson_json : doodson_json[i][2] = coef
    THEN doodson_json[CHOOSE i \in DOMAIN doodson_json :
           /\ doodson_json[i][2] = coef
           /\ \A j \in 1..(i - 1) : doodson_json[j][2] # coef][1]
    ELSE "ValueError"

\* doodson_number of one name (a str) or of a list of names (a dict)
doodson_number(cs, str) ==
  IF str
    THEN IF cs[1] \notin Range(names)
           THEN [error |-> TRUE, numbers |-> <<>>]
           ELSE LET r == _to_doodson_number(coefficients_table(cs[1]))
                IN  [error |-> r.error, numbers |-> (cs[1] :> r.DO)]
    ELSE IF \E i \in DOMAIN cs : cs[i] \notin Range(names)
           THEN [error |-> TRUE, numbers |-> <<>>]
           ELSE [error |-> \E i \in DOMAIN cs :
                             _to_doodson_number(coefficients_table(cs[i])).error,
                 numbers |-> [c \in Range(cs) |->
                                _to_doodson_number(coefficients_table(c)).DO]]

\* the longest list of names handed to doodson_number
MaxNames == 2

\* a run of the names of the table, as test_doodson passes exp.keys()
lists ==
  {SubSeq(names, i, j) : i \in DOMAIN names,
                         j \in DOMAIN names} \ {<<>>}

DoodsonInit ==
  /\ key \in Range(names) \cup {unsupported}
  /\ isstr \in BOOLEAN
  /\ IF isstr
       THEN constituents = <<key>>
       ELSE \/ constituents \in
                 {l \in lists : Len(l) <= MaxNames /\ key \in Range(l)}
            \/ key = unsupported /\ constituents = <<names[1], key>>
  /\ numbers = <<>>
  /\ coefficients = <<>>
  /\ constituent_id = "None"
  /\ doodsonPc = "call"

call_doodson_number ==
  /\ doodsonPc = "call"
  /\ LET r == doodson_number(constituents, isstr)
     IN  /\ numbers' = r.numbers
         /\ doodsonPc' = IF r.error THEN "raised" ELSE "numbered"
  /\ UNCHANGED <<key, isstr, constituents, coefficients, constituent_id>>
  /\ DoodsonFrame

\* the number is handed back as it is, with no hint beside it
call_from_doodson_number ==
  /\ doodsonPc = "numbered"
  /\ coefficients' = _from_doodson_number(numbers[key])
  /\ doodsonPc' = "decoded"
  /\ UNCHANGED <<key, isstr, constituents, numbers, constituent_id>>
  /\ DoodsonFrame

call_to_constituent_id ==
  /\ doodsonPc = "decoded"
  /\ constituent_id' = _to_constituent_id(coefficients)
  /\ doodsonPc' = "identified"
  /\ UNCHANGED <<key, isstr, constituents, numbers, coefficients>>
  /\ DoodsonFrame

DoodsonNext ==
  \/ call_doodson_number
  \/ call_from_doodson_number
  \/ call_to_constituent_id

----------------------------------------------------------------------------
(* The Dataset accessor: pyTMD/io/dataset.py *)

\* names a dataset may give its variables: constituents as they are named
\* in the catalog, in upper case or by an alias, and other fields
variable_names ==
  <<
    <<"m","2">>, <<"s","2">>, <<"M","2">>, <<"l","a","2">>,
    <<"b","a","t","h","y","m","e","t","r","y">>, <<"m","a","s","k">>
  >>

\* the most variables a dataset holds, and the longest list given to subset
MaxVars == 2

\* lists of distinct names, as the keys of a dataset are
keylists(n) ==
  {l \in UNION {[1..k -> Range(variable_names)] : k \in 1..n} :
     \A i, j \in DOMAIN l : i # j => l[i] # l[j]}

\* constituents.parse raises ValueError for a name it cannot resolve
constituents_parse(v) == _parse_name(v)

\* Dataset.constituents: the parsed name of every variable that parses;
\* a ValueError of the parser is caught and the variable passed over
RECURSIVE Dataset_constituents(_)
Dataset_constituents(keys) ==
  IF keys = <<>> THEN [cons |-> <<>>, exception |-> "None"]
  ELSE LET rest == Dataset_constituents(Tail(keys))
       IN  IF constituents_parse(Head(keys)) = ValueError
             THEN rest
             ELSE [cons |-> <<constituents_parse(Head(keys))>> \o rest.cons,
                   exception |-> "None"]

getitem_in_dataset_order(keys, wanted) ==
  IF \A i \in DOMAIN wanted : wanted[i] \in Range(keys)
    THEN [vars |-> SelectSeq(keys, LAMBDA k : k \in Range(wanted)),
          exception |-> "None"]
    ELSE [vars |-> <<>>, exception |-> "KeyError"]

\* xarray's ds[names]: the named variables in the order asked, or KeyError
getitem(keys, wanted) ==
  IF \A i \in DOMAIN wanted : wanted[i] \in Range(keys)
    THEN [vars |-> wanted, exception |-> "None"]
    ELSE [vars |-> <<>>, exception |-> "KeyError"]

\* Dataset.subset: c is None, a str (a list of one name here) or a list
Dataset_subset(keys, arg) ==
  IF arg.kind = "None" THEN [vars |-> keys, exception |-> "None"]
  ELSE getitem(keys, arg.names)

\* Dataset.to_dataarray with its default, the constituents of the dataset
Dataset_to_dataarray(keys) ==
  getitem(keys, Dataset_constituents(keys).cons)

DatasetInit ==
  /\ data_vars \in keylists(MaxVars)
  /\ method = "None"
  /\ subset_c = [kind |-> "None", names |-> <<>>]
  /\ output = <<>>
  /\ exception = "None"
  /\ datasetPc = "open"

get_constituents ==
  /\ datasetPc = "open"
  /\ method' = "constituents"
  /\ LET r == Dataset_constituents(data_vars)
     IN  /\ output' = r.cons
         /\ exception' = r.exception
  /\ datasetPc' = "done"
  /\ UNCHANGED <<data_vars, subset_c>>
  /\ DatasetFrame

subset ==
  /\ datasetPc = "open"
  /\ method' = "subset"
  /\ \E arg \in {[kind |-> "None", names |-> <<>>]}
         \cup {[kind |-> "str", names |-> <<n>>] : n \in Range(variable_names)}
         \cup {[kind |-> "list", names |-> l] : l \in keylists(MaxVars)} :
       /\ subset_c' = arg
       /\ LET r == Dataset_subset(data_vars, arg)
          IN  /\ output' = r.vars
              /\ exception' = r.exception
  /\ datasetPc' = "done"
  /\ UNCHANGED <<data_vars>>
  /\ DatasetFrame

to_dataarray ==
  /\ datasetPc = "open"
  /\ method' = "to_dataarray"
  /\ LET r == Dataset_to_dataarray(data_vars)
     IN  /\ output' = r.vars
         /\ exception' = r.exception
  /\ datasetPc' = "done"
  /\ UNCHANGED <<data_vars, subset_c>>
  /\ DatasetFrame

DatasetNext == get_constituents \/ subset \/ to_dataarray

----------------------------------------------------------------------------
(* tide_elevations and tide_currents: pyTMD/compute.py *)

\* the conventions of nodal corrections the library knows
supported == {"OTIS", "ATLAS", "TMD3", "netcdf", "GOT", "FES", "perth3"}

\* what a caller may pass as CORRECTIONS: nothing (None), a convention, the
\* empty string, or a string that names no convention
corrections_arguments == {"None", "", "otis", "FES2014"} \cup supported

\* the minor constituents the model infers by default, and what a caller
\* may pass as MINOR_CONSTITUENTS: None or a list
model_minor == <<"mu2", "nu2">>

minor_arguments ==
  {[none |-> TRUE, list |-> <<>>],
   [none |-> FALSE, list |-> <<>>],
   [none |-> FALSE, list |-> <<"mu2">>]}

\* the most times a call is given
MaxTimes == 2

SecondsPerDay == 86400

\* days from 1992-01-01, the epoch of ts.tide, to 2000-01-01, the EPOCH
EpochDays == 2922

\* delta_time: seconds since EPOCH
delta_times ==
  UNION {[1..n -> {0, SecondsPerDay, 2 * SecondsPerDay}] : n \in 1..MaxTimes}

\* timescale.from_deltatime(...).tide: days since 1992-01-01
ts_tide(dt) == [i \in DOMAIN dt |-> dt[i] \div SecondsPerDay + EpochDays]

\* timescale's interpolated TT - UT1, in millionths of a day: about 64
\* seconds in 2000, never zero over the years the models cover
ts_tt_ut1(dt) == [i \in DOMAIN dt |-> 739 + (ts_tide(dt)[i] - EpochDays)]

\* np.zeros_like
zeros_like(a) == [i \in DOMAIN a |-> 0]

\* x or y on a str or None: y when x is None or empty
str_or(x, y) == IF x = "None" \/ x = "" THEN y ELSE x

\* x or y on a list or None: y when x is None or empty
list_or(x, y) == IF x.none \/ x.list = <<>> THEN y ELSE x.list

zero_deltat_without_TMD3 == {"OTIS", "ATLAS", "netcdf"}

\* the conventions computed with the delta time at 2000.0, as TMD does
zero_deltat == {"OTIS", "ATLAS", "TMD3", "netcdf"}

delta_time_for(nodal_corrections, dt) ==
  IF nodal_corrections \in zero_deltat
    THEN zeros_like(ts_tt_ut1(dt))
    ELSE ts_tt_ut1(dt)

\* the arguments handed to Dataset.predict and to Dataset.infer
predict_arguments(k, t, dT, nodal_corrections) ==
  [key |-> k, t |-> t, deltat |-> dT, corrections |-> nodal_corrections]

infer_arguments_without_deltat(k, t, dT, nodal_corrections, minor) ==
  [key |-> k, t |-> t, deltat |-> zeros_like(dT),
   corrections |-> nodal_corrections, minor |-> minor]

infer_arguments(k, t, dT, nodal_corrections, minor) ==
  [key |-> k, t |-> t, deltat |-> dT, corrections |-> nodal_corrections,
   minor |-> minor]

\* the models of the database, and the constituents of the one the tests
\* open (test_fes_predict.py)
database == {"FES2014"}

model_constituents ==
  <<
    <<"2","n","2">>, <<"k","1">>, <<"k","2">>, <<"m","2">>, <<"m","4">>,
    <<"m","f">>, <<"m","m">>, <<"m","s","q","m">>, <<"m","t","m">>,
    <<"n","2">>, <<"o","1">>, <<"p","1">>, <<"q","1">>, <<"s","1">>,
    <<"s","2">>
  >>

\* the major constituents the inference of the minor ones needs
core_constituents ==
  {<<"q","1">>, <<"o","1">>, <<"p","1">>, <<"k","1">>,
   <<"n","2">>, <<"m","2">>, <<"s","2">>, <<"k","2">>}

\* what a caller may pass as CONSTITUENTS: None, an empty list, one name,
\* the core without k2, the core in an order of the caller's, or a list
\* with a name the model does not hold
constituents_arguments ==
  {[kind |-> "None", names |-> <<>>],
   [kind |-> "list", names |-> <<>>],
   [kind |-> "str", names |-> <<<<"m","2">>>>],
   [kind |-> "list",
    names |-> <<<<"q","1">>, <<"o","1">>, <<"p","1">>, <<"k","1">>,
                <<"n","2">>, <<"m","2">>, <<"s","2">>>>],
   [kind |-> "list",
    names |-> <<<<"k","2">>, <<"s","2">>, <<"m","2">>, <<"n","2">>,
                <<"k","1">>, <<"p","1">>, <<"o","1">>, <<"q","1">>>>],
   [kind |-> "list", names |-> <<<<"m","2">>, <<"m","3">>>>]}

\* the longest coordinate vector given
MaxGrid == 2

\* a coordinate argument: None, a scalar or a vector
coordinates(step) ==
  {[kind |-> "None", v |-> <<>>], [kind |-> "scalar", v |-> <<step>>]}
    \cup {[kind |-> "vector", v |-> [j \in 1..n |-> step * j]] :
            n \in 1..MaxGrid}

\* np.ndim and np.size of a coordinate argument
np_ndim(a) == IF a.kind = "vector" THEN 1 ELSE 0

np_size(a) == IF a.kind = "vector" THEN Len(a.v) ELSE 1

\* np.meshgrid(x, y): ny rows of nx columns, x along the columns
np_meshgrid(vx, vy) ==
  [i \in DOMAIN vy |-> [j \in DOMAIN vx |-> <<vx[j], vy[i]>>]]

\* the coordinates X and Y of the call; xr.DataArray refuses one-dimensional
\* data for the two dimensions ('y', 'x')
NoCoordinates == [dims |-> <<>>, values |-> <<>>]

to_coordinates(type, ax, ay) ==
  IF np_ndim(ax) = 0 /\ np_ndim(ay) = 0
    THEN [raised |-> "None",
          XY |-> [dims |-> <<>>, values |-> <<<<ax.v[1], ay.v[1]>>>>]]
  ELSE IF type = "grid" /\ np_size(ax) # np_size(ay)
    THEN [raised |-> "None",
          XY |-> [dims |-> <<"y", "x">>, values |-> np_meshgrid(ax.v, ay.v)]]
  ELSE IF type = "grid"
    THEN [raised |-> "ValueError", XY |-> NoCoordinates]
  ELSE [raised |-> "None",
        XY |-> [dims |-> IF type = "drift" THEN <<"time">> ELSE <<"station">>,
                values |-> [j \in DOMAIN ax.v |-> <<ax.v[j], ay.v[j]>>]]]

infer_raises_below_six(cons) ==
  Cardinality(core_constituents \cap Range(cons)) < 6

\* the inference of the minor constituents refuses a set of major
\* constituents that lacks one of the core
infer_raises(cons) == ~ (core_constituents \subseteq Range(cons))

\* prediction refuses a convention it does not know
predict_raises(corrections) == corrections \notin supported

\* the datasets the call goes through: the elevations, or the currents u, v
components(f) == IF f = "tide_elevations" THEN <<"z">> ELSE <<"u", "v">>

\* the loop over the components: each is interpolated, predicted and, with
\* INFER_MINOR, inferred; an exception ends the loop
RECURSIVE predict_components(_, _, _, _, _, _, _)
predict_components(keys, cons, t, dT, nodal_corrections, minor, infer) ==
  IF keys = <<>>
    THEN [interp |-> 0, predict |-> <<>>, infer |-> <<>>, raised |-> "None"]
  ELSE IF predict_raises(nodal_corrections)
    THEN [interp |-> 1,
          predict |-> <<predict_arguments(Head(keys), t, dT, nodal_corrections)>>,
          infer |-> <<>>,
          raised |-> "ValueError"]
  ELSE IF infer /\ infer_raises(cons)
    THEN [interp |-> 1,
          predict |-> <<predict_arguments(Head(keys), t, dT, nodal_corrections)>>,
          infer |-> <<infer_arguments(Head(keys), t, dT, nodal_corrections,
                                      minor)>>,
          raised |-> "InsufficientMajorConstituents"]
  ELSE LET rest == predict_components(Tail(keys), cons, t, dT,
                                      nodal_corrections, minor, infer)
       IN  [interp |-> 1 + rest.interp,
            predict |->
              <<predict_arguments(Head(keys), t, dT, nodal_corrections)>>
                \o rest.predict,
            infer |->
              IF infer
                THEN <<infer_arguments(Head(keys), t, dT, nodal_corrections,
                                       minor)>> \o rest.infer
                ELSE rest.infer,
            raised |-> rest.raised]

\* the arguments of the calls made: every convention, minor list and time
\* list for points along a track, or every directory, model, constituent
\* list, type and coordinates at one time under the model's convention
ComputeInit ==
  /\ function \in {"tide_elevations", "tide_currents"}
  /\ INFER_MINOR \in BOOLEAN
  /\ MINOR_CONSTITUENTS \in minor_arguments
  /\ \/ /\ CORRECTIONS \in corrections_arguments
        /\ delta_time \in delta_times
        /\ model_corrections \in supported
        /\ DIRECTORY = "exists"
        /\ MODEL \in database
        /\ CONSTITUENTS = [kind |-> "None", names |-> <<>>]
        /\ TYPE = "drift"
        /\ x_arg = [kind |-> "vector", v |-> [j \in DOMAIN delta_time |-> 10 * j]]
        /\ y_arg = [kind |-> "vector", v |-> [j \in DOMAIN delta_time |-> 100 * j]]
     \/ /\ CORRECTIONS = "None"
        /\ delta_time = <<0>>
        /\ model_corrections \in {"FES", "OTIS"}
        /\ DIRECTORY \in {"None", "exists", "missing"}
        /\ MODEL \in database \cup {"invalid"}
        /\ CONSTITUENTS \in constituents_arguments
        /\ TYPE \in {"grid", "drift", "time series"}
        /\ x_arg \in coordinates(10)
        /\ y_arg \in coordinates(100)
        /\ x_arg.kind = y_arg.kind
        /\ x_arg.kind = "None" => MODEL \notin database
        /\ TYPE # "grid" => Len(x_arg.v) = Len(y_arg.v)
        /\ TYPE # "grid" /\ x_arg.kind = "vector" => Len(x_arg.v) = 1
  /\ deltat = <<>>
  /\ interp_calls = 0
  /\ predict_calls = <<>>
  /\ infer_calls = <<>>
  /\ raised = "None"
  /\ ds_constituents = <<>>
  /\ XY = NoCoordinates
  /\ tide = "None"
  /\ computePc = "call"

open_model_coordinates_first(dir, m, wanted, type, ax, ay) ==
  LET c == to_coordinates(type, ax, ay)
  IN  IF dir = "missing"
        THEN [raised |-> "FileNotFoundError", cons |-> <<>>, XY |-> c.XY]
      ELSE IF m \notin database
        THEN [raised |-> "Unlisted tide model", cons |-> <<>>, XY |-> c.XY]
      ELSE [raised |-> c.raised, cons |-> model_constituents, XY |-> c.XY]

\* the call up to the coordinates: the directory, the model, the subset of
\* its constituents and the coordinates X, Y
open_model(dir, m, wanted, type, ax, ay) ==
  IF dir = "missing"
    THEN [raised |-> "FileNotFoundError", cons |-> <<>>, XY |-> NoCoordinates]
  ELSE IF m \notin database
    THEN [raised |-> "Unlisted tide model", cons |-> <<>>, XY |-> NoCoordinates]
  ELSE LET ds == IF wanted.names # <<>>
                   THEN Dataset_subset(model_constituents, wanted)
                   ELSE [vars |-> model_constituents, exception |-> "None"]
           c == to_coordinates(type, ax, ay)
       IN  IF ds.exception # "None"
             THEN [raised |-> ds.exception, cons |-> <<>>, XY |-> NoCoordinates]
             ELSE [raised |-> c.raised, cons |-> ds.vars, XY |-> c.XY]

\* the body the two functions share
tide_call(f) ==
  /\ computePc = "call"
  /\ LET m == open_model(DIRECTORY, MODEL, CONSTITUENTS, TYPE, x_arg, y_arg)
         nodal_corrections == str_or(CORRECTIONS, model_corrections)
         minor_constituents == list_or(MINOR_CONSTITUENTS, model_minor)
         dT == delta_time_for(nodal_corrections, delta_time)
         r == predict_components(components(f), m.cons, ts_tide(delta_time),
                                 dT, nodal_corrections, minor_constituents,
                                 INFER_MINOR)
     IN  /\ ds_constituents' = m.cons
         /\ XY' = m.XY
         /\ IF m.raised # "None"
              THEN /\ raised' = m.raised
                   /\ tide' = "None"
                   /\ UNCHANGED <<deltat, interp_calls, predict_calls,
                                  infer_calls>>
              ELSE /\ deltat' = dT
                   /\ interp_calls' = r.interp
                   /\ predict_calls' = r.predict
                   /\ infer_calls' = r.infer
                   /\ raised' = r.raised
                   /\ tide' = IF r.raised = "None" THEN "tide" ELSE "None"
  /\ computePc' = "done"
  /\ UNCHANGED <<function, CORRECTIONS, INFER_MINOR, MINOR_CONSTITUENTS,
                 delta_time, model_corrections, DIRECTORY, MODEL,
                 CONSTITUENTS, TYPE, x_arg, y_arg>>
  /\ ComputeFrame

tide_elevations ==
  /\ function = "tide_elevations"
  /\ tide_call("tide_elevations")

tide_currents ==
  /\ function = "tide_currents"
  /\ tide_call("tide_currents")

ComputeNext == tide_elevations \/ tide_currents

----------------------------------------------------------------------------
(* extract_constants: pyTMD/io/FES.py, and the prediction of
   test_perth3_read.py from the constants it returns *)

\* one file per constituent
model_files == <<"q1", "m2">>

\* the most grid columns the model has, and the most points asked for
MaxLon == 2

MaxPoints == 1

\* a regional grid, in half grid steps: columns at 2, 4, ..., rows at 0, 2
lon == [k \in 1..MaxLon |-> 2 * k]

lat == <<0, 2>>

nodes == (DOMAIN lat) \X (DOMAIN lon)

\* the masks of a constituent's grid: no node, one node or every node masked
hc_masks ==
  {[n \in nodes |-> FALSE], [n \in nodes |-> TRUE]}
    \cup {[n \in nodes |-> n = m] : m \in nodes}

\* the points asked for: on a node, between nodes, or beyond the grid
\* (the points of one call lie along one parallel)
longitudes == 1..(2 * MaxLon + 1)

latitudes == {-1, 1, 2}

\* the keyword arguments; np.inf is a cutoff farther than any point
methods == {"bilinear", "spline", "linear", "nearest"}

cutoffs == {1, 100}

min(axis) == axis[1]

max(axis) == axis[Len(axis)]

abs(a) == IF a < 0 THEN -a ELSE a

\* the points outside the bounds of the model
invalid(x, y) ==
  x < min(lon) \/ x > max(lon) \/ y < min(lat) \/ y > max(lat)

\* the nodes of an axis that weigh in a linear interpolation at pos
weighing(pos, axis) == {k \in DOMAIN axis : abs(axis[k] - pos) < 2}

\* the interpolated mask is nonzero when a node that weighs in is masked
interpolated(M, x, y) ==
  \E r \in weighing(y, lat), k \in weighing(x, lon) : M[<<r, k>>]

\* the corners of the cell that holds pos
corners(pos, axis) ==
  LET below == {k \in DOMAIN axis : axis[k] <= pos /\ k < Len(axis)}
      k0 == CHOOSE k \in below : \A j \in below : j <= k
  IN  {k0, k0 + 1}

\* bilinear_interp: nan outside the grid or where a corner is nan
bilinear_interp(M, x, y) ==
  \/ invalid(x, y)
  \/ \E r \in corners(y, lat), k \in corners(x, lon) : M[<<r, k>>]

\* RectBivariateSpline evaluates a point beyond the grid at its edge
clamp(pos, axis) ==
  IF pos < min(axis) THEN min(axis)
  ELSE IF pos > max(axis) THEN max(axis) ELSE pos

RectBivariateSpline(M, x, y) == interpolated(M, clamp(x, lon), clamp(y, lat))

\* the nearest node of an axis, the lower of two equally near
nearest(pos, axis) ==
  CHOOSE k \in DOMAIN axis :
    \A j \in DOMAIN axis :
      \/ abs(axis[k] - pos) < abs(axis[j] - pos)
      \/ abs(axis[k] - pos) = abs(axis[j] - pos) /\ k <= j

\* RegularGridInterpolator with bounds_error=False and fill_value=1
RegularGridInterpolator(M, meth, x, y) ==
  IF invalid(x, y) THEN TRUE
  ELSE IF meth = "nearest" THEN M[<<nearest(y, lat), nearest(x, lon)>>]
  ELSE interpolated(M, x, y)

\* hci.mask after the interpolation of one constituent at one point
interpolate(M, meth, x, y) ==
  IF meth = "bilinear" THEN bilinear_interp(M, x, y)
  ELSE IF meth = "spline" THEN RectBivariateSpline(M, x, y)
  ELSE RegularGridInterpolator(M, meth, x, y)

\* nearest_extrap: masked unless a valid model point lies within the cutoff
nearest_extrap(M, x, y, cut) ==
  ~ \E n \in nodes :
      /\ ~ M[n]
      /\ (lon[n[2]] - x) * (lon[n[2]] - x) + (lat[n[1]] - y) * (lat[n[1]] - y)
           <= cut * cut

\* hci.mask of one constituent at one point
hci_mask(M, meth, extrap, cut, x, y) ==
  IF extrap /\ interpolate(M, meth, x, y)
    THEN nearest_extrap(M, x, y, cut)
    ELSE interpolate(M, meth, x, y)

\* amplitude.mask[:,i] |= invalid, after the extrapolation
mask_of_hci_alone(mask, outside) == mask

mask_outside_domain(mask, outside) == mask \/ outside

\* the mask of the amplitude, and of the phase, by point and constituent
constants_mask(masks, meth, extrap, cut, xs, ys) ==
  [p \in DOMAIN xs |->
     [i \in DOMAIN masks |->
        mask_outside_domain(
          hci_mask(masks[i], meth, extrap, cut, xs[p], ys[p]),
          invalid(xs[p], ys[p]))]]

\* interpolate_constants: its RegularGridInterpolator is built on the axes
\* (lon, lat) over the values by (lat, lon), which scipy refuses unless the
\* two are as long, and is asked for the points (ilat, ilon)
RegularGridInterpolator_lon_lat(M, meth, x, y) ==
  IF y < min(lon) \/ y > max(lon) \/ x < min(lat) \/ x > max(lat) THEN TRUE
  ELSE IF meth = "nearest" THEN M[<<nearest(y, lon), nearest(x, lat)>>]
  ELSE \E r \in weighing(y, lon), k \in weighing(x, lat) : M[<<r, k>>]

interpolate_constants_mask(M, meth, extrap, cut, x, y) ==
  LET m == IF meth = "bilinear" THEN bilinear_interp(M, x, y)
           ELSE IF meth = "spline" THEN RectBivariateSpline(M, x, y)
           ELSE RegularGridInterpolator_lon_lat(M, meth, x, y)
  IN  IF extrap /\ m THEN nearest_extrap(M, x, y, cut) ELSE m

\* read_constants and then interpolate_constants
read_interpolate(masks, meth, extrap, cut, xs, ys) ==
  IF meth \in {"linear", "nearest"} /\ Len(lon) # Len(lat)
    THEN [raised |-> "ValueError", mask |-> <<>>]
    ELSE [raised |-> "None",
          mask |->
            [p \in DOMAIN xs |->
               [i \in DOMAIN masks |->
                  mask_outside_domain(
                    interpolate_constants_mask(masks[i], meth, extrap, cut,
                                               xs[p], ys[p]),
                    invalid(xs[p], ys[p]))]]]

\* the mask of a product of masked arrays
mask_or(a, b) == [p \in DOMAIN a |-> [i \in DOMAIN a[p] |-> a[p][i] \/ b[p][i]]]

np_all(row) == \A i \in DOMAIN row : row[i]

\* np.any over the constituents of a point
np_any(row) == \E i \in DOMAIN row : row[i]

FESInit ==
  /\ \E n \in 1..MaxPoints :
       /\ ilon \in [1..n -> longitudes]
       /\ \E la \in latitudes : ilat = [i \in 1..n |-> la]
  /\ hc_mask \in [DOMAIN model_files -> hc_masks]
  /\ fes_method \in methods
  /\ extrapolate \in BOOLEAN
  /\ cutoff \in cutoffs
  /\ extrapolate = FALSE => cutoff = 1
  /\ amplitude_mask = <<>>
  /\ ph_mask = <<>>
  /\ tide_mask = <<>>
  /\ interpolated_mask = <<>>
  /\ interpolate_raised = "None"
  /\ fesPc = "extract"

extract_constants ==
  /\ fesPc = "extract"
  /\ amplitude_mask' =
       constants_mask(hc_mask, fes_method, extrapolate, cutoff, ilon, ilat)
  /\ ph_mask' =
       constants_mask(hc_mask, fes_method, extrapolate, cutoff, ilon, ilat)
  /\ fesPc' = "predict"
  /\ UNCHANGED <<ilon, ilat, hc_mask, fes_method, extrapolate, cutoff,
                 tide_mask, interpolated_mask, interpolate_raised>>
  /\ FESFrame

\* hc = amp*np.exp(cph); tide.mask[:] = np.any(hc.mask, axis=1)
predict_drift ==
  /\ fesPc = "predict"
  /\ LET hc == mask_or(amplitude_mask, ph_mask)
     IN  tide_mask' = [p \in DOMAIN hc |-> np_any(hc[p])]
  /\ fesPc' = "done"
  /\ UNCHANGED <<ilon, ilat, hc_mask, fes_method, extrapolate, cutoff,
                 amplitude_mask, ph_mask, interpolated_mask,
                 interpolate_raised>>
  /\ FESFrame

\* the other way to the constants of the same files and points
interpolate_constants ==
  /\ fesPc = "done"
  /\ LET r == read_interpolate(hc_mask, fes_method, extrapolate, cutoff,
                               ilon, ilat)
     IN  /\ interpolated_mask' = r.mask
         /\ interpolate_raised' = r.raised
  /\ fesPc' = "compared"
  /\ UNCHANGED <<ilon, ilat, hc_mask, fes_method, extrapolate, cutoff,
                 amplitude_mask, ph_mask, tide_mask>>
  /\ FESFrame

FESNext == extract_constants \/ predict_drift \/ interpolate_constants

----------------------------------------------------------------------------
(* The harmonic prediction: the sum over the constituents of
   f(t) * Re(hc * exp(i * (G(t) + u(t)))) at each point *)

\* the last time predicted at, in steps of the model
MaxTime == 2

\* the constituents predicted
major == <<"m2", "s2", "k1">>

\* a harmonic constant: its real and imaginary part and its mask
constant_values ==
  {[re |-> 1, im |-> 0, mask |-> FALSE],
   [re |-> 0, im |-> 2, mask |-> FALSE],
   [re |-> -1, im |-> 1, mask |-> FALSE],
   [re |-> 0, im |-> 0, mask |-> TRUE]}

\* the points predicted at
npts == {1, 2}

\* cosine and sine, in thousandths, of an angle in degrees that is a
\* multiple of 30
cosd(a) ==
  LET q == (a % 360) \div 30
  IN  <<1000, 866, 500, 0, -500, -866, -1000, -866, -500, 0, 500, 866>>[q + 1]

sind(a) == cosd(a - 90)

\* the fundamental arguments tau, s, h, p, N', ps at a time, in degrees
fundamental(t) == <<30 * t + 60, 60 * t, 30 * t, 30, 330 - 30 * t, 270>>

\* the equilibrium argument of a constituent: its Doodson coefficients
\* times the fundamental arguments
equilibrium_argument(c, t) ==
  sum([i \in 1..6 |-> coefficients_table(c)[i] * fundamental(t)[i]])

\* the nodal corrections of a constituent, f in thousandths and u in
\* degrees; f = 1 and u = 0 for a constituent without a correction
nodal_f(c, t, corrections) ==
  LET N == 30 * t
  IN  IF c = "m2" THEN 1000 - (37 * cosd(N)) \div 1000
      ELSE IF c = "k1"
        THEN (IF corrections = "OTIS" THEN 1006 ELSE 1000)
               + (115 * cosd(N)) \div 1000
      ELSE 1000

nodal_u(c, t, corrections) ==
  LET N == 30 * t
  IN  IF c = "m2" THEN 0 - 30 * (sind(N) \div 1000)
      ELSE IF c = "k1" THEN 30 * (sind(N) \div 1000)
      ELSE 0

nodal_factor_of_first(cons, i, t, corrections) == nodal_f(cons[1], t, corrections)

\* the nodal factor of the i-th constituent predicted
nodal_factor(cons, i, t, corrections) == nodal_f(cons[i], t, corrections)

\* the term of one constituent at one point
harmonic_term(cons, i, hc, t, corrections) ==
  LET th == equilibrium_argument(cons[i], t) + nodal_u(cons[i], t, corrections)
  IN  nodal_factor(cons, i, t, corrections)
        * (hc.re * cosd(th) - hc.im * sind(th))

\* predict: at every point the sum of the terms, masked where a constant is
predict(t, hc, cons, corrections) ==
  [p \in DOMAIN hc |->
     [mask |-> \E i \in DOMAIN cons : hc[p][i].mask,
      data |-> sum([i \in DOMAIN cons |->
                      harmonic_term(cons, i, hc[p][i], t, corrections)])]]

\* the columns of the harmonic constants of one constituent
column(hc, i) == [p \in DOMAIN hc |-> <<hc[p][i]>>]

PredictInit ==
  /\ pair \in {c \in [1..2 -> Range(major)] : c[1] # c[2]}
  /\ harmonic_constants \in [npts -> [1..2 -> constant_values]]
  /\ tide_time \in 0..MaxTime
  /\ convention \in {"OTIS", "GOT"}
  /\ predicted = <<>>
  /\ predictPc = "predict"

\* the prediction with the two constituents, with the first and with the
\* second
predict_each ==
  /\ predictPc = "predict"
  /\ predicted' =
       [both |-> predict(tide_time, harmonic_constants, pair, convention),
        first |-> predict(tide_time, column(harmonic_constants, 1),
                          <<pair[1]>>, convention),
        second |-> predict(tide_time, column(harmonic_constants, 2),
                           <<pair[2]>>, convention)]
  /\ predictPc' = "done"
  /\ UNCHANGED <<pair, harmonic_constants, tide_time, convention>>
  /\ PredictFrame

PredictNext == predict_each

----------------------------------------------------------------------------
(* Amplitudes and phases: DataArray.amplitude and DataArray.phase of
   pyTMD/io/dataset.py, the phases of pyTMD/io/FES.py, normalize_angle *)

\* the largest amplitude of a constant, and the most turns of an angle
MaxAmplitude == 2

MaxTurns == 1

\* the complex constants a * exp(i * th), th a multiple of 30 degrees
complex_values ==
  {[re |-> a * cosd(th * 30), im |-> a * sind(th * 30)] :
     a \in 0..MaxAmplitude, th \in 0..11}

\* the angles of test_normalize_angle and the others of whole turns
angles == {30 * k : k \in (0 - 12 * MaxTurns - 6)..(12 * MaxTurns + 6)}

\* the square root, to the nearest integer
RECURSIVE sqrt_between(_, _, _)
sqrt_between(n, lo, hi) ==
  IF hi - lo <= 1 THEN lo
  ELSE LET mid == (lo + hi) \div 2
       IN  IF mid * mid <= n THEN sqrt_between(n, mid, hi)
                             ELSE sqrt_between(n, lo, mid)

np_sqrt(n) ==
  LET r == sqrt_between(n, 0, IF n < 46340 THEN n + 1 ELSE 46340)
  IN  IF (r + 1) * (r + 1) - n < n - r * r THEN r + 1 ELSE r

\* np.degrees(np.arctan2(b, a)): the angle of (a, b) in (-180, 180]
arctan2(b, a) ==
  IF a = 0 /\ b = 0 THEN 0
  ELSE CHOOSE th \in {30 * k : k \in -5..6} :
         /\ a * sind(th) = b * cosd(th)
         /\ a * cosd(th) + b * sind(th) > 0

wrap_none(ph) == ph

\* ph.where(ph >= 0, ph + 360.0); phase.data[phase.data < 0] += 360.0
wrap(ph) == IF ph >= 0 THEN ph ELSE ph + 360

\* DataArray.amplitude
DataArray_amplitude(da) == np_sqrt(da.re * da.re + da.im * da.im)

DataArray_phase_of_conjugate(da) == wrap(arctan2(da.im, da.re))

\* DataArray.phase
DataArray_phase(da) == wrap(arctan2(0 - da.im, da.re))

\* the amplitude and phase of extract_constants and interpolate_constants
FES_amplitude(hci) == np_sqrt(hci.re * hci.re + hci.im * hci.im)

FES_phase(hci) == wrap(arctan2(0 - hci.im, hci.re))

\* normalize_angle: the angle modulo a full turn
normalize_angle(a) == a % 360

\* the constant of an amplitude and a phase: amp * exp(-i * ph * pi / 180)
to_complex(am, ph) ==
  [re |-> (am * cosd(ph)) \div 1000, im |-> 0 - ((am * sind(ph)) \div 1000)]

PhaseInit ==
  /\ hc_value \in complex_values
  /\ angle \in angles
  /\ operation = "None"
  /\ amplitude_out = 0
  /\ phase_out = 0
  /\ phasePc = "start"

amplitude_and_phase ==
  /\ phasePc = "start"
  /\ operation' = "DataArray"
  /\ amplitude_out' = DataArray_amplitude(hc_value)
  /\ phase_out' = DataArray_phase(hc_value)
  /\ phasePc' = "done"
  /\ UNCHANGED <<hc_value, angle>>
  /\ PhaseFrame

extract_phase ==
  /\ phasePc = "start"
  /\ operation' = "FES"
  /\ amplitude_out' = FES_amplitude(hc_value)
  /\ phase_out' = FES_phase(hc_value)
  /\ phasePc' = "done"
  /\ UNCHANGED <<hc_value, angle>>
  /\ PhaseFrame

call_normalize_angle ==
  /\ phasePc = "start"
  /\ operation' = "normalize_angle"
  /\ phase_out' = normalize_angle(angle)
  /\ phasePc' = "done"
  /\ UNCHANGED <<hc_value, angle, amplitude_out>>
  /\ PhaseFrame

PhaseNext == amplitude_and_phase \/ extract_phase \/ call_normalize_angle

----------------------------------------------------------------------------
(* The model class: pyTMD/model.py *)

\* a value of Python: its type and, for a str, the words and separators it
\* is made of, for a list its items, for the others their text
Py(t, items) == [py |-> t, items |-> items]

py_str(w) == Py("str", <<w>>)

py_bool(b) == Py("bool", <<IF b THEN "True" ELSE "False">>)

py_None == Py("NoneType", <<"None">>)

\* the attributes of a model object after __init__
model_init(dir, gz) ==
  [name |-> py_None, format |-> py_str("netcdf"), model_file |-> py_None,
   compressed |-> py_bool(gz), type |-> py_None, scale |-> Py("float", <<"1.0">>),
   projection |-> py_None, grid_file |-> py_None, constituents |-> py_None]

\* the files of GOT4.7 and of FES2014
GOT47_files ==
  <<"q1.d", "o1.d", "p1.d", "k1.d", "n2.d", "m2.d", "s2.d", "k2.d", "s1.d",
    "m4.d">>

FES2014_files ==
  <<"2n2.nc", "eps2.nc", "j1.nc", "k1.nc", "k2.nc", "l2.nc", "la2.nc",
    "m2.nc", "m3.nc", "m4.nc", "m6.nc", "m8.nc", "mf.nc", "mks2.nc", "mm.nc",
    "mn4.nc", "ms4.nc", "msf.nc", "msqm.nc", "mtm.nc", "mu2.nc", "n2.nc",
    "n4.nc", "nu2.nc", "o1.nc", "p1.nc", "q1.nc", "r2.nc", "s1.nc", "s2.nc",
    "s4.nc", "sa.nc", "ssa.nc", "t2.nc">>

\* the constituents of FES2014
FES2014_constituents ==
  <<"2n2", "eps2", "j1", "k1", "k2", "l2", "lambda2", "m2", "m3", "m4", "m6",
    "m8", "mf", "mks2", "mm", "mn4", "ms4", "msf", "msqm", "mtm", "mu2", "n2",
    "n4", "nu2", "o1", "p1", "q1", "r2", "s1", "s2", "s4", "sa", "ssa", "t2">>

\* os.path.join(model_directory, f + gzip) for every file
model_file_list(model_directory, files, gz) ==
  [i \in DOMAIN files |->
     model_directory \o "/" \o files[i] \o (IF gz THEN ".gz" ELSE "")]

\* model.elevation: the name and the type are set, then the attributes of
\* a model that is listed; any other name raises
model_elevation(self, dir, gz, m) ==
  LET named == [self EXCEPT !.name = py_str(m), !.type = py_str("z")]
  IN  IF m = "CATS0201"
        THEN [raised |-> "None",
              self |-> [named EXCEPT
                !.grid_file = py_str(dir \o "/cats0201_tmd/grid_CATS"),
                !.model_file = py_str(dir \o "/cats0201_tmd/h0_CATS02_01"),
                !.format = py_str("OTIS"),
                !.projection = py_str("4326")]]
      ELSE IF m = "GOT4.7"
        THEN [raised |-> "None",
              self |-> [named EXCEPT
                !.model_file =
                   Py("list", model_file_list(dir \o "/GOT4.7/grids_oceantide",
                                              GOT47_files, gz)),
                !.format = py_str("GOT"),
                !.scale = Py("float", <<"0.01">>)]]
      ELSE IF m = "FES2014"
        THEN [raised |-> "None",
              self |-> [named EXCEPT
                !.model_file =
                   Py("list", model_file_list(dir \o "/fes2014/ocean_tide",
                                              FES2014_files, gz)),
                !.constituents = Py("list", FES2014_constituents),
                !.format = py_str("FES"),
                !.scale = Py("float", <<"0.01">>)]]
      ELSE [raised |-> "Unlisted tide model", self |-> named]

\* a dict with the keys u and v, or with the key u alone, and the empty dict
py_dict(keys, u, v) == [py |-> "dict", items |-> keys, u |-> u, v |-> v]

\* [os.path.join(model_directory, f + gzip) for f in val] of model.current:
\* val is a directory of the dict model_directory and f each character of
\* it; os.path.join refuses the dict at the first of them
model_file_of_directory(val, gz) ==
  IF Len(val) = 0 THEN [raised |-> "None", list |-> Py("list", <<>>)]
  ELSE [raised |-> "TypeError", list |-> py_None]

\* model.current: the name and the type are set, then the attributes of a
\* model that is listed; any other name raises
model_current(self, dir, gz, m) ==
  LET named == [self EXCEPT !.name = py_str(m),
                            !.type = Py("list", <<"u", "v">>)]
  IN  IF m = "CATS0201"
        THEN [raised |-> "None",
              self |-> [named EXCEPT
                !.grid_file = py_str(dir \o "/cats0201_tmd/grid_CATS"),
                !.model_file =
                   py_dict(<<"u">>,
                           py_str(dir \o "/cats0201_tmd/UV0_CATS02_01"),
                           py_None),
                !.format = py_str("OTIS"),
                !.projection = py_str("4326")]]
      ELSE IF m = "FES2014"
        THEN LET u == model_file_of_directory(
                        dir \o "/fes2014/eastward_velocity", gz)
                 v == model_file_of_directory(
                        dir \o "/fes2014/northward_velocity", gz)
                 empty == [named EXCEPT
                             !.model_file = py_dict(<<>>, py_None, py_None)]
             IN  IF u.raised # "None"
                   THEN [raised |-> u.raised, self |-> empty]
                 ELSE IF v.raised # "None"
                   THEN [raised |-> v.raised,
                         self |-> [named EXCEPT !.model_file =
                                     py_dict(<<"u">>, u.list, py_None)]]
                 ELSE [raised |-> "None",
                       self |-> [named EXCEPT
                         !.model_file = py_dict(<<"u", "v">>, u.list, v.list),
                         !.constituents = Py("list", FES2014_constituents),
                         !.format = py_str("FES"),
                         !.scale = Py("float", <<"1.0">>)]]
      ELSE [raised |-> "Unlisted tide model", self |-> named]

\* model.grid: the name is set, then the grid file of a model that is
\* listed; any other name raises
model_grid(self, dir, m) ==
  LET named == [self EXCEPT !.name = py_str(m)]
  IN  IF m = "CATS0201"
        THEN [raised |-> "None",
              self |-> [named EXCEPT
                !.grid_file = py_str(dir \o "/cats0201_tmd/grid_CATS")]]
      ELSE [raised |-> "Unlisted tide model", self |-> named]

\* the attributes a definition is written from (test_definition_file)
attrs == <<"name", "format", "model_file", "compressed", "type", "scale">>

\* the text of a value: a list is written with commas between its items
RECURSIVE join(_)
join(items) ==
  IF Len(items) <= 1 THEN items
  ELSE <<Head(items), ",">> \o join(Tail(items))

text(value) == IF value.py = "list" THEN join(value.items) ELSE value.items

\* a definition file: a line for each attribute, its name and its value
definition_file(self, keys) ==
  [i \in DOMAIN keys |-> [key |-> keys[i], value |-> text(self[keys[i]])]]

\* the separators of re.split(r'[\s\,]+', ...)
separators == {",", " "}

\* from_dict: every parameter is set as the str it was read as
RECURSIVE from_dict(_, _)
from_dict(self, lines) ==
  IF lines = <<>> THEN self
  ELSE from_dict([self EXCEPT ![Head(lines).key] = Py("str", Head(lines).value)],
                 Tail(lines))

\* from_file: the parameters of the file are set, the type verified, the
\* scale made a float and a model_file with separators split into a list
from_file(self, lines) ==
  LET temp == from_dict(self, lines)
      scaled == [temp EXCEPT !.scale = Py("float", temp.scale.items)]
      split ==
        IF \E i \in DOMAIN scaled.model_file.items :
             scaled.model_file.items[i] \in separators
          THEN [scaled EXCEPT !.model_file =
                  Py("list", SelectSeq(scaled.model_file.items,
                                       LAMBDA w : w \notin separators))]
          ELSE scaled
  IN  IF ~ (temp.type.py = "str"
            /\ temp.type.items \in {<<"OTIS">>, <<"ATLAS">>, <<"netcdf">>,
                                    <<"GOT">>, <<"FES">>})
        THEN [raised |-> "AssertionError", self |-> temp]
      ELSE IF temp.model_file.py = "NoneType"
        THEN [raised |-> "TypeError", self |-> scaled]
      ELSE IF temp.type.items \in {<<"OTIS">>, <<"ATLAS">>}
              /\ temp.projection.py = "NoneType"
        THEN [raised |-> "AssertionError", self |-> split]
      ELSE [raised |-> "None", self |-> split]

\* the lists of attributes written: all of them, or all but one
field_lists ==
  {attrs} \cup {SelectSeq(attrs, LAMBDA a : a # b) : b \in Range(attrs)}

ModelInit ==
  /\ directory \in {"/data"}
  /\ compressed \in BOOLEAN
  /\ model_name \in {"CATS0201", "GOT4.7", "FES2014", "invalid"}
  /\ fields \in field_lists
  /\ tide_model = model_init(directory, compressed)
  /\ definition = <<>>
  /\ loaded = model_init(directory, FALSE)
  /\ model_raised = "None"
  /\ modelPc = "model"

elevation ==
  /\ modelPc = "model"
  /\ LET r == model_elevation(tide_model, directory, compressed, model_name)
     IN  /\ tide_model' = r.self
         /\ model_raised' = r.raised
         /\ modelPc' = "elevation"
  /\ UNCHANGED <<directory, compressed, model_name, fields, definition, loaded>>
  /\ ModelFrame

current ==
  /\ modelPc = "model"
  /\ LET r == model_current(tide_model, directory, compressed, model_name)
     IN  /\ tide_model' = r.self
         /\ model_raised' = r.raised
  /\ modelPc' = "current"
  /\ UNCHANGED <<directory, compressed, model_name, fields, definition, loaded>>
  /\ ModelFrame

grid ==
  /\ modelPc = "model"
  /\ LET r == model_grid(tide_model, directory, model_name)
     IN  /\ tide_model' = r.self
         /\ model_raised' = r.raised
  /\ modelPc' = "grid"
  /\ UNCHANGED <<directory, compressed, model_name, fields, definition, loaded>>
  /\ ModelFrame

write_definition ==
  /\ modelPc = "elevation"
  /\ model_raised = "None"
  /\ definition' = definition_file(tide_model, fields)
  /\ modelPc' = "written"
  /\ UNCHANGED <<directory, compressed, model_name, tide_model, fields,
                 loaded, model_raised>>
  /\ ModelFrame

load_definition ==
  /\ modelPc = "written"
  /\ LET r == from_file(model_init(directory, FALSE), definition)
     IN  /\ loaded' = r.self
         /\ model_raised' = r.raised
  /\ modelPc' = "loaded"
  /\ UNCHANGED <<directory, compressed, model_name, tide_model, fields,
                 definition>>
  /\ ModelFrame

ModelNext ==
  elevation \/ current \/ grid \/ write_definition \/ load_definition

----------------------------------------------------------------------------
(* Model.interp: pyTMD/xio/Model.py, and Dataset.interp: io/dataset.py *)

MaxCalls == 3

\* the grids of a model: global ones of three spacings, one global grid
\* given from -180, one that repeats its first meridian at 360, a regional one
grids ==
  {<<0, 90, 180, 270>>, <<0, 120, 240>>, <<0, 180>>, <<-180, -90, 0, 90>>,
   <<0, 90, 180, 270, 360>>, <<0, 90, 180>>}

\* the keyword arguments open_dataset reads the files with
dataset_kwargs ==
  {[type |-> t, constituents |-> c] :
     t \in {"z", "u"}, c \in {<<"None">>, <<"m2">>, <<"m2", "s2">>}}

NoKwargs == [type |-> "None", constituents |-> <<>>]

\* a Model without the attribute _ds
NoDataset == [open |-> FALSE, type |-> "None", constituents |-> <<>>, x |-> <<>>]

\* Model.open_dataset: the dataset of the type and constituents asked for
open_dataset(kwargs, x) ==
  [open |-> TRUE, type |-> kwargs.type, constituents |-> kwargs.constituents,
   x |-> x]

\* Dataset.is_global: the grid is geographic and lacks one spacing of 360
is_global_when_wide(x, is_geographic) ==
  is_geographic /\ x[Len(x)] - x[1] >= 360 - (x[2] - x[1])

is_global(x, is_geographic) ==
  is_geographic /\ x[Len(x)] - x[1] = 360 - (x[2] - x[1])

\* Dataset.pad(n=1): one column more on each side, x continued by its spacing
pad(x) ==
  <<2 * x[1] - x[2]>> \o x \o <<2 * x[Len(x)] - x[Len(x) - 1]>>

\* Dataset.interp: the accessor pads its own dataset when it is global, then
\* interpolates it; the x it holds afterwards
Dataset_interp(x, is_geographic) ==
  IF is_global(x, is_geographic) THEN pad(x) ELSE x

\* hasattr(self, '_ds')
hasattr_never(ds) == FALSE

hasattr_ds(ds) == ds.open

InterpInit ==
  /\ grid_x \in grids
  /\ geographic \in BOOLEAN
  /\ stored = NoDataset
  /\ opens = <<>>
  /\ tmd_x = grid_x
  /\ interp_result = [kwargs |-> NoKwargs, dataset |-> NoDataset]
  /\ model_calls = 0
  /\ dataset_calls = 0

\* Model.interp(x, y, **kwargs)
Model_interp ==
  /\ model_calls < MaxCalls
  /\ \E kwargs \in dataset_kwargs :
       LET opening == ~ hasattr_ds(stored)
           ds == IF opening THEN open_dataset(kwargs, grid_x) ELSE stored
           padded == IF is_global(ds.x, geographic)
                       THEN [ds EXCEPT !.x = pad(ds.x)] ELSE ds
           used == [padded EXCEPT !.x = Dataset_interp(padded.x, geographic)]
       IN  /\ opens' = IF opening THEN Append(opens, kwargs) ELSE opens
           /\ stored' = used
           /\ interp_result' = [kwargs |-> kwargs, dataset |-> used]
  /\ model_calls' = model_calls + 1
  /\ UNCHANGED <<grid_x, geographic, tmd_x, dataset_calls>>
  /\ InterpFrame

\* ds.tmd.interp(x, y) on a Dataset of the grid
Dataset_interp_call ==
  /\ dataset_calls < MaxCalls
  /\ tmd_x' = Dataset_interp(tmd_x, geographic)
  /\ dataset_calls' = dataset_calls + 1
  /\ UNCHANGED <<grid_x, geographic, stored, opens, interp_result, model_calls>>
  /\ InterpFrame

InterpNext == Model_interp \/ Dataset_interp_call

----------------------------------------------------------------------------
(* Downloads: from_ftp and from_http of pyTMD/utilities.py *)

MaxBytes == 2

\* the contents a file can have
contents == UNION {[1..n -> {0, 1}] : n \in 0..MaxBytes}

NoFile == [exists |-> FALSE, bytes |-> <<>>, mtime |-> "None"]

\* hashlib.md5(...).hexdigest(): a digest that tells any two contents apart
RECURSIVE hexdigest(_)
hexdigest(bytes) ==
  IF bytes = <<>> THEN "d"
  ELSE hexdigest(Tail(bytes)) \o (IF Head(bytes) = 0 THEN "0" ELSE "1")

\* shutil.copyfileobj(source, ..., chunk): the bytes from a position on,
\* read a chunk at a time until a read returns nothing
RECURSIVE copyfileobj(_, _, _)
copyfileobj(bytes, pos, length) ==
  IF pos >= Len(bytes) THEN <<>>
  ELSE LET end == IF pos + length > Len(bytes) THEN Len(bytes) ELSE pos + length
       IN  SubSeq(bytes, pos + 1, end) \o copyfileobj(bytes, end, length)

\* `local and (hash != remote_hash)`
stale_whenever_local(given, hash, remote_hash) == given

stale(given, hash, remote_hash) == given /\ hash # remote_hash

DownloadInit ==
  /\ remote_content \in contents
  /\ reachable \in BOOLEAN
  /\ local_given \in BOOLEAN
  /\ hash_arg \in {""} \cup {hexdigest(c) : c \in contents}
  /\ chunk \in 1..MaxBytes
  /\ local_before \in
       {NoFile} \cup {[exists |-> TRUE, bytes |-> c, mtime |-> "local"] :
                        c \in contents}
  /\ local_given = FALSE => local_before = NoFile
  /\ local_file = local_before
  /\ remote_buffer = [value |-> <<>>, pos |-> 0]
  /\ file_writes = 0
  /\ download_raised = "None"
  /\ downloadPc = "call"

\* the body the two functions share: the remote bytes are copied to the
\* buffer, hashed, and written to the local file when it is stale
download(unreachable, keeps_mtime) ==
  /\ downloadPc = "call"
  /\ downloadPc' = "done"
  /\ IF ~ reachable
       THEN /\ download_raised' = unreachable
            /\ UNCHANGED <<remote_buffer, local_file, file_writes>>
       ELSE LET value == copyfileobj(remote_content, 0, chunk)
                remote_hash == hexdigest(value)
            IN  /\ download_raised' = "None"
                /\ remote_buffer' = [value |-> value, pos |-> 0]
                /\ IF stale(local_given, hash_arg, remote_hash)
                     THEN /\ local_file' =
                               [exists |-> TRUE,
                                bytes |-> copyfileobj(value, 0, chunk),
                                mtime |-> IF keeps_mtime THEN "remote"
                                          ELSE "now"]
                          /\ file_writes' = file_writes + 1
                     ELSE UNCHANGED <<local_file, file_writes>>
  /\ UNCHANGED <<remote_content, reachable, local_given, hash_arg, chunk,
                 local_before>>
  /\ DownloadFrame

from_ftp ==
  /\ downloadPc = "call"
  /\ download("RuntimeError", TRUE)

from_http ==
  /\ downloadPc = "call"
  /\ download("Exception", FALSE)

DownloadNext == from_ftp \/ from_http

----------------------------------------------------------------------------
(* ATLAS netCDF files: pyTMD/xio/ATLAS.py *)

MaxPart == 1

\* the harmonic constant of a node
atlas_values ==
  {[re |-> a, im |-> b] : a \in -MaxPart..MaxPart, b \in -MaxPart..MaxPart}

\* a Dataset of one or two constituents, each a variable [con, hc]
atlas_datasets ==
  {<<[con |-> "m2", hc |-> a]>> : a \in atlas_values}
    \cup {<<[con |-> "m2", hc |-> a], [con |-> "s2", hc |-> b]>> :
            a \in atlas_values, b \in atlas_values}

\* ATLASDataset.to_netcdf: for each constituent the real and the imaginary
\* part are taken with `.real.values()` and `.imag.values()`, a call of the
\* array that values is, which raises before any file is written
to_netcdf(ds, files) ==
  IF ds = <<>> THEN [raised |-> "None", files |-> files]
  ELSE [raised |-> "TypeError", files |-> files]

\* open_atlas_dataset(type='z'): the variable con of the file names the
\* constituent, and its value is hRe + -1j*hIm
open_atlas_dataset(file) ==
  <<[con |-> file.con, hc |-> [re |-> file.hRe, im |-> 0 - file.hIm]]>>

AtlasInit ==
  /\ atlas_ds \in atlas_datasets
  /\ atlas_directory \in
       {<<>>} \cup {<<[con |-> "m2", hRe |-> a.re, hIm |-> a.im]>> :
                      a \in atlas_values}
  /\ atlas_read = <<>>
  /\ atlas_raised = "None"
  /\ atlasPc = "dataset"

\* ds.atlas.to_netcdf(path)
atlas_to_netcdf ==
  /\ atlasPc = "dataset"
  /\ LET r == to_netcdf(atlas_ds, atlas_directory)
     IN  /\ atlas_raised' = r.raised
         /\ atlas_directory' = r.files
  /\ atlasPc' = "written"
  /\ UNCHANGED <<atlas_ds, atlas_read>>
  /\ AtlasFrame

\* open_atlas_dataset(path / 'm2.nc', type='z')
atlas_open ==
  /\ atlasPc = "written"
  /\ \E i \in DOMAIN atlas_directory :
       atlas_read' = open_atlas_dataset(atlas_directory[i])
  /\ atlasPc' = "read"
  /\ UNCHANGED <<atlas_ds, atlas_directory, atlas_raised>>
  /\ AtlasFrame

AtlasNext == atlas_to_netcdf \/ atlas_open

----------------------------------------------------------------------------
(* FES ascii files: read_ascii_file of pyTMD/io/FES.py *)

\* the values of a line of the file, and the lines of its header
BlockWidth == 30
HeaderLines == 5

MaxNlon == 61
MaxNlat == 2

\* the lines of a file of nlat rows of nlon values: for each row, a line of
\* amplitudes and a line of phases for each block of at most 30 values
RECURSIVE ascii_lines(_, _, _)
ascii_lines(n, rows, i) ==
  IF i >= rows THEN <<>>
  ELSE LET blocks == (n + BlockWidth - 1) \div BlockWidth
           width(b) == IF (b + 1) * BlockWidth <= n THEN BlockWidth
                       ELSE n - b * BlockWidth
           row == [k \in 1..(2 * blocks) |->
                     [row |-> i, count |-> width((k - 1) \div 2)]]
       IN  row \o ascii_lines(n, rows, i + 1)

NotRead == [raised |-> "None", rows |-> 0, i1 |-> HeaderLines, next_row |-> FALSE]

\* the loop over the latitudes from row i and line i1 on: the blocks of 30
\* values first, then the `last tidal variables` after the block j
RECURSIVE read_rows(_, _, _, _, _, _)
read_rows(lines, n, rows, i, i1, strayed) ==
  LET has(k) == (k - HeaderLines + 1) \in DOMAIN lines
      line(k) == lines[k - HeaderLines + 1]
      \* an assignment to a slice takes as many values, or one
      fits(k, length) == line(k).count \in {1, length}
      blocks == n \div BlockWidth
      short == {j \in 0..(blocks - 1) : ~ has(i1 + 2 * j + 1)}
      misfit == {j \in 0..(blocks - 1) \ short :
                   ~ fits(i1 + 2 * j, BlockWidth)}
      last == i1 + 2 * blocks
      stop(e, s) == [raised |-> e, rows |-> i, i1 |-> i1, next_row |-> s]
  IN  IF i >= rows
        THEN [raised |-> "None", rows |-> i, i1 |-> i1, next_row |-> strayed]
      ELSE IF short # {} THEN stop("IndexError", strayed)
      ELSE IF misfit # {} THEN stop("ValueError", strayed)
      ELSE IF blocks = 0 THEN stop("UnboundLocalError", strayed)
      ELSE IF ~ has(last) THEN stop("IndexError", strayed)
      ELSE IF ~ fits(last, n % BlockWidth)
        THEN stop("ValueError", strayed \/ line(last).row # i)
      ELSE IF ~ has(last + 1)
        THEN stop("IndexError", strayed \/ line(last).row # i)
      ELSE read_rows(lines, n, rows, i + 1, last + 2,
                     strayed \/ line(last).row # i)

AsciiInit ==
  /\ nlon \in 1..MaxNlon
  /\ nlat \in 1..MaxNlat
  /\ file_contents = ascii_lines(nlon, nlat, 0)
  /\ ascii_read = NotRead
  /\ asciiPc = "file"

read_ascii_file ==
  /\ asciiPc = "file"
  /\ ascii_read' = read_rows(file_contents, nlon, nlat, 0, HeaderLines, FALSE)
  /\ asciiPc' = "read"
  /\ UNCHANGED <<nlon, nlat, file_contents>>
  /\ AsciiFrame

AsciiNext == read_ascii_file

----------------------------------------------------------------------------
(* read_iers_EOP: pyTMD/read_iers_EOP.py *)

MaxLines == 4

\* the flag of a line of a finals file: IERS, prediction, or none
eop_flags == {"I", "P", " "}

EOPInit ==
  /\ eop_lines \in UNION {[1..n -> eop_flags] : n \in 0..MaxLines}
  /\ eop_flag = "I"
  /\ eop_counter = 0
  /\ dinput = [MJD |-> Len(eop_lines), x |-> Len(eop_lines),
               y |-> Len(eop_lines)]
  /\ eop_raised = "None"
  /\ eopPc = "while"

\* one turn of `while (flag == 'I')`: file_contents[counter] is read
\* whether or not there is such a line
eop_read_line ==
  /\ eopPc = "while"
  /\ eop_flag = "I"
  /\ IF eop_counter + 1 \in DOMAIN eop_lines
       THEN /\ eop_flag' = eop_lines[eop_counter + 1]
            /\ eop_counter' = eop_counter + 1
            /\ UNCHANGED <<eop_raised, eopPc>>
       ELSE /\ eop_raised' = "IndexError"
            /\ eopPc' = "done"
            /\ UNCHANGED <<eop_flag, eop_counter>>
  /\ UNCHANGED <<eop_lines, dinput>>
  /\ EOPFrame

\* after the loop: the three arrays are cut to [:counter] and returned
eop_return ==
  /\ eopPc = "while"
  /\ eop_flag # "I"
  /\ dinput' = [MJD |-> eop_counter, x |-> eop_counter, y |-> eop_counter]
  /\ eopPc' = "done"
  /\ UNCHANGED <<eop_lines, eop_flag, eop_counter, eop_raised>>
  /\ EOPFrame

EOPNext == eop_read_line \/ eop_return

----------------------------------------------------------------------------
(* url_split: pyTMD/utilities.py.  A string is the sequence of its
   characters. *)

MaxUrl == 4

\* the characters of the strings split: the separator, and those of 's3:'
url_chars == {"/", "s", "3", ":"}

\* the depth of recursion the interpreter refuses; a call that ends needs
\* no more frames than its string has characters
RecursionLimit == MaxUrl + 2

\* the heads that end the recursion with the whole string; of the four of
\* the code, the one the characters above can spell
schemes == {<<"s", "3", ":">>}

\* posixpath.split: head up to the last slash, with its trailing slashes
\* removed unless it is made of slashes alone, and the tail after it
posixpath_split(p) ==
  LET slashes == {k \in DOMAIN p : p[k] = "/"}
      i == IF slashes = {} THEN 0
           ELSE CHOOSE k \in slashes : \A j \in slashes : j <= k
      head == SubSeq(p, 1, i)
      others == {k \in DOMAIN head : head[k] # "/"}
      j == IF others = {} THEN Len(head)
           ELSE CHOOSE k \in others : \A l \in others : l <= k
  IN  [head |-> SubSeq(head, 1, j), tail |-> SubSeq(p, i + 1, Len(p))]

UrlInit ==
  /\ url \in UNION {[1..n -> url_chars] : n \in 0..MaxUrl}
  /\ url_s = url
  /\ url_tails = <<>>
  /\ url_depth = 0
  /\ url_result = <<>>
  /\ url_raised = "None"
  /\ urlPc = "call"

\* one call of url_split(s): it returns, and with it every call that waits
\* for it, or it calls url_split(head)
url_split ==
  /\ urlPc = "call"
  /\ LET parts == posixpath_split(url_s)
     IN  IF parts.head \in schemes
           THEN /\ url_result' = <<url_s>> \o url_tails
                /\ urlPc' = "done"
                /\ UNCHANGED <<url_s, url_tails, url_depth, url_raised>>
         ELSE IF parts.head \in {<<>>, <<"/">>}
           THEN /\ url_result' = <<parts.tail>> \o url_tails
                /\ urlPc' = "done"
                /\ UNCHANGED <<url_s, url_tails, url_depth, url_raised>>
         ELSE IF url_depth + 1 >= RecursionLimit
           THEN /\ url_raised' = "RecursionError"
                /\ urlPc' = "done"
                /\ UNCHANGED <<url_s, url_tails, url_depth, url_result>>
         ELSE /\ url_s' = parts.head
              /\ url_tails' = <<parts.tail>> \o url_tails
              /\ url_depth' = url_depth + 1
              /\ UNCHANGED <<url_result, url_raised, urlPc>>
  /\ UNCHANGED url
  /\ UrlFrame

UrlNext == url_split

----------------------------------------------------------------------------
(* Properties of name resolution *)

lambda2 == <<"l","a","m","b","d","a","2">>
node == <<"n","o","d","e">>

\* C5: name resolution ignores letter case and the padding around a name:
\* for every canonical name or alias n, resolving n in upper case, n between
\* underscores or n padded with spaces to ten characters gives what
\* resolving n itself gives, never an error, and a canonical name resolves
\* to itself.
C5_ResolutionIgnoresCaseAndPadding ==
  (namePc \in {"parsed", "raised", "reparsed"} /\ name \in catalog \cup aliases) =>
    /\ parsed # ValueError
    /\ parsed = _parse_name(name)
    /\ name \in catalog => parsed = name

\* an alias in upper case has been resolved to its canonical name
C5_Witness ==
  /\ namePc = "parsed"
  /\ name = <<"l","a","2">>
  /\ constituent = <<"L","A","2">>
  /\ parsed = lambda2

\* C6: every alias of the table resolves to its canonical name (2n to 2n2;
\* la2, lam2 and lm2 to lambda2; omega0 and om0 to node), and resolving the
\* result again returns it unchanged.
C6_ResolutionIdempotent ==
  /\ (namePc \in {"parsed", "raised", "reparsed"}) =>
       /\ \A i \in DOMAIN mapping :
            name = mapping[i][1] => parsed = mapping[i][2] /\ parsed \in catalog
       /\ name = <<"2","n">> => parsed = <<"2","n","2">>
       /\ name \in {<<"l","a","2">>, <<"l","a","m","2">>, <<"l","m","2">>} =>
            parsed = lambda2
       /\ name \in {<<"o","m","e","g","a","0">>, <<"o","m","0">>} => parsed = node
  /\ namePc = "reparsed" => reparsed = parsed

\* a padded alias has been resolved, and its canonical name resolved again
C6_Witness ==
  /\ namePc = "reparsed"
  /\ name = <<"o","m","0">>
  /\ constituent = ljust(name, PadWidth)
  /\ parsed = node
  /\ reparsed = node

----------------------------------------------------------------------------
(* Properties of Doodson numbers *)

expected(c) == exp[CHOOSE i \in DOMAIN exp : exp[i][1] = c][2]

\* the constituents whose Doodson number another constituent has too
shared(c) ==
  /\ c \in Range(names)
  /\ \E d \in Range(names) : d # c /\ expected(d) = expected(c)

\* the six digits of a Doodson number, read off its decimal or its text
digits_of(DO) ==
  IF DO.kind = "float"
    THEN [o \in 1..6 |-> (DO.value \div pow10(6 - o)) % 10]
    ELSE [o \in 1..6 |->
            char_digit(DO.text[IF o <= 3 THEN o ELSE o + 1])]

returned == {"numbered", "decoded", "identified"}

\* C7: the Doodson number of a constituent has its first coefficient as
\* first digit and each other coefficient plus 5 as the five other digits;
\* M2 is 255.555, K1 165.555 and the node term 055.565; it is the number
\* test_doodson expects, and a name in a list gets the number it gets alone.
C7_DoodsonNumberEncoding ==
  doodsonPc \in returned =>
    \A c \in DOMAIN numbers :
      /\ digits_of(numbers[c])[1] = coefficients_table(c)[1]
      /\ \A o \in 2..6 : digits_of(numbers[c])[o] = coefficients_table(c)[o] + 5
      /\ numbers[c] = expected(c)
      /\ c = "m2" => numbers[c] = Float(255555)
      /\ c = "k1" => numbers[c] = Float(165555)
      /\ c = "node" => numbers[c] = Float(55565)
      /\ numbers[c] = doodson_number(<<c>>, TRUE).numbers[c]

\* the node term has been numbered as one of a list of two names
C7_Witness ==
  /\ doodsonPc = "numbered"
  /\ ~isstr
  /\ Len(constituents) = 2
  /\ key = "node"
  /\ numbers["node"] = Float(55565)

\* C8: decoding the Doodson number of a constituent that shares its number
\* with no other gives back the coefficients the number was encoded from.
C8_FromDoodsonRecovers ==
  (doodsonPc \in {"decoded", "identified"} /\ ~shared(key)) =>
    coefficients = coefficients_table(key)

\* a number with a leading zero and digits below 5 has been decoded
C8_Witness ==
  /\ doodsonPc = "decoded"
  /\ key = "mm"
  /\ numbers[key] = Float(65455)
  /\ coefficients = <<0, 1, 0, -1, 0, 0>>

----------------------------------------------------------------------------
(* Properties of the Dataset accessor *)

unresolved(keys) ==
  {keys[i] : i \in {j \in DOMAIN keys : constituents_parse(keys[j]) = ValueError}}

\* C1: a constituent name that does not resolve makes the operation that
\* used it fail with the unknown-constituent error; no operation passes
\* over such a name, listing the constituents of a dataset included.
C1_UnresolvedNameIsFatal ==
  (datasetPc = "done" /\ method \in {"constituents", "to_dataarray"}
     /\ unresolved(data_vars) # {}) =>
    exception = "ValueError"

----------------------------------------------------------------------------
(* Properties of tide_elevations and tide_currents *)

C2_PredictAndInferAgree ==
  computePc = "done" =>
    /\ \A i \in DOMAIN infer_calls :
         /\ i \in DOMAIN predict_calls
         /\ predict_calls[i].key = infer_calls[i].key
         /\ predict_calls[i].corrections = infer_calls[i].corrections
         /\ predict_calls[i].t = infer_calls[i].t
         /\ predict_calls[i].deltat = infer_calls[i].deltat
    /\ \A i, j \in DOMAIN predict_calls :
         /\ predict_calls[i].corrections = predict_calls[j].corrections
         /\ predict_calls[i].t = predict_calls[j].t
         /\ predict_calls[i].deltat = predict_calls[j].deltat

\* both currents have been predicted and inferred under a convention of the
\* caller that uses the interpolated delta times
C2_Witness ==
  /\ computePc = "done"
  /\ function = "tide_currents"
  /\ CORRECTIONS = "GOT"
  /\ model_corrections = "OTIS"
  /\ Len(delta_time) = 2
  /\ Len(infer_calls) = 2
  /\ infer_calls[2].deltat = ts_tt_ut1(delta_time)
  /\ infer_calls[2].corrections = "GOT"

\* C3: a CORRECTIONS string that names no supported convention is rejected
\* with an error at the call boundary, before the model is interpolated or
\* anything predicted; it is never taken for a convention or a default.
C3_UnsupportedConventionRejected ==
  (computePc = "done" /\ CORRECTIONS # "None" /\ CORRECTIONS \notin supported) =>
    /\ raised # "None"
    /\ interp_calls = 0
    /\ predict_calls = <<>>

\* the convention in effect: that of the caller, if the caller gave one
effective == IF CORRECTIONS \notin {"None", ""} THEN CORRECTIONS ELSE model_corrections

\* C10: the delta-T passed to prediction is zero at every time exactly when
\* the convention in effect is OTIS, ATLAS, TMD3 or netcdf; under any other
\* convention it is the interpolated TT - UT1 of the input times.
C10_ZeroDeltaTimeForOTIS ==
  computePc = "done" =>
    /\ \A i \in DOMAIN predict_calls :
         LET dT == predict_calls[i].deltat
         IN  /\ DOMAIN dT = DOMAIN delta_time
             /\ (\A n \in DOMAIN dT : dT[n] = 0)
                  <=> effective \in {"OTIS", "ATLAS", "TMD3", "netcdf"}
             /\ effective \notin {"OTIS", "ATLAS", "TMD3", "netcdf"} =>
                  dT = ts_tt_ut1(delta_time)

\* a caller's TMD3 has overridden the model's GOT and zeroed the delta times
C10_Witness ==
  /\ computePc = "done"
  /\ CORRECTIONS = "TMD3"
  /\ model_corrections = "GOT"
  /\ Len(delta_time) = 2
  /\ predict_calls # <<>>
  /\ predict_calls[1].deltat = <<0, 0>>

C12_MinorListOfTheCaller ==
  computePc = "done" =>
    \A i \in DOMAIN infer_calls :
      infer_calls[i].minor =
        IF MINOR_CONSTITUENTS.none THEN model_minor ELSE MINOR_CONSTITUENTS.list

C19_GridIsTheFullMesh ==
  (computePc = "done" /\ function = "tide_elevations" /\ TYPE = "grid"
     /\ x_arg.kind = "vector" /\ y_arg.kind = "vector"
     /\ DIRECTORY # "missing" /\ MODEL \in database
     /\ raised # "KeyError") =>
    /\ raised # "ValueError"
    /\ DOMAIN XY.values = DOMAIN y_arg.v
    /\ \A i \in DOMAIN y_arg.v :
         /\ DOMAIN XY.values[i] = DOMAIN x_arg.v
         /\ \A j \in DOMAIN x_arg.v :
              XY.values[i][j] = <<x_arg.v[j], y_arg.v[i]>>

----------------------------------------------------------------------------
(* Properties of the masks of the harmonic constants *)

\* C17: read_constants followed by interpolate_constants returns the masks
\* (and with them the amplitudes and phases) that extract_constants returns
\* for the same files, points and method, every method included.
C17_TwoWaysToTheSameConstants ==
  fesPc = "compared" =>
    /\ interpolate_raised = "None"
    /\ interpolated_mask = amplitude_mask

\* C4: where the amplitude or the phase of any constituent is masked at a
\* point, the predicted tide is masked at that point, whatever the validity
\* of the other constituents there.
C4_MaskedConstantMasksTide ==
  fesPc \in {"done", "compared"} =>
    \A p \in DOMAIN ilon :
      (\E i \in DOMAIN model_files : amplitude_mask[p][i] \/ ph_mask[p][i])
        => tide_mask[p]

\* one constituent is masked at a point within the grid, the other is
\* valid there, and the tide has been predicted
C4_Witness ==
  /\ fesPc = "done"
  /\ ~ invalid(ilon[1], ilat[1])
  /\ amplitude_mask[1][1]
  /\ ~ amplitude_mask[1][2]
  /\ ~ ph_mask[1][2]
  /\ tide_mask[1]

----------------------------------------------------------------------------
(* Properties of the harmonic prediction *)

\* C13: the prediction with two constituents is, at every point, the sum of
\* the prediction with the one and the prediction with the other; the sum
\* of masked values is masked where either is.
C13_Superposition ==
  predictPc = "done" =>
    \A p \in npts :
      /\ predicted.both[p].mask =
           (predicted.first[p].mask \/ predicted.second[p].mask)
      /\ ~ predicted.both[p].mask =>
           predicted.both[p].data =
             predicted.first[p].data + predicted.second[p].data

\* m2 and k1, both with a nodal factor other than one, both valid and
\* neither prediction zero
C13_Witness ==
  /\ predictPc = "done"
  /\ pair = <<"m2", "k1">>
  /\ ~ predicted.both[1].mask
  /\ predicted.first[1].data # 0
  /\ predicted.second[1].data # 0
  /\ nodal_f("m2", tide_time, convention) # nodal_f("k1", tide_time, convention)

----------------------------------------------------------------------------
(* Properties of amplitudes and phases *)

\* C15: the amplitude and the phase of a harmonic constant give the
\* constant back: amplitude * exp(-i * phase * pi / 180) = hc.
C15_AmplitudeAndPhaseInvert ==
  (phasePc = "done" /\ operation = "DataArray") =>
    /\ amplitude_out >= 0
    /\ abs(amplitude_out * amplitude_out
             - (hc_value.re * hc_value.re + hc_value.im * hc_value.im))
         <= amplitude_out
    /\ to_complex(amplitude_out, phase_out) = hc_value

\* a constant with a positive imaginary part, whose angle is negative
C15_Witness ==
  /\ phasePc = "done"
  /\ operation = "DataArray"
  /\ hc_value.im > 0
  /\ hc_value.re < 0
  /\ phase_out > 180
  /\ to_complex(amplitude_out, phase_out) = hc_value

\* the angle before it is normalized
unnormalized ==
  IF operation = "normalize_angle" THEN angle
  ELSE arctan2(0 - hc_value.im, hc_value.re)

C25_OutsideTheModelIsMasked ==
  \A p \in DOMAIN ilon :
    (\/ ilon[p] < lon[1] \/ ilon[p] > lon[Len(lon)]
     \/ ilat[p] < lat[1] \/ ilat[p] > lat[Len(lat)]) =>
      /\ fesPc \in {"predict", "done", "compared"} =>
           \A i \in DOMAIN model_files :
             amplitude_mask[p][i] /\ ph_mask[p][i]
      /\ (fesPc = "compared" /\ interpolate_raised = "None") =>
           \A i \in DOMAIN model_files : interpolated_mask[p][i]

C25_Witness ==
  /\ fesPc = "compared"
  /\ interpolate_raised = "None"
  /\ extrapolate
  /\ \E p \in DOMAIN ilon :
       /\ ilat[p] < lat[1]
       /\ ~ hci_mask(hc_mask[1], fes_method, extrapolate, cutoff,
                     ilon[p], ilat[p])
       /\ amplitude_mask[p][1]
       /\ interpolated_mask[p][1]

----------------------------------------------------------------------------
(* Properties of the model class *)

\* C20: the attributes of a model of the database, written to a definition
\* file and loaded with from_file, are the attributes of the model loaded.
C20_DefinitionRoundTrips ==
  modelPc = "loaded" =>
    /\ model_raised = "None"
    /\ \A i \in DOMAIN fields : loaded[fields[i]] = tide_model[fields[i]]

----------------------------------------------------------------------------
(* Properties of Model.interp and Dataset.interp *)

\* C21: over any sequence of Model.interp calls on one Model the dataset is
\* opened at most once, by the first call; every later call interpolates the
\* dataset of the first call's keyword arguments, whatever its own are.
C21_DatasetOpenedOnce ==
  /\ Len(opens) <= 1
  /\ model_calls > 0 =>
       /\ Len(opens) = 1
       /\ stored.open
       /\ interp_result.dataset.type = opens[1].type
       /\ interp_result.dataset.constituents = opens[1].constituents

C21_Witness ==
  /\ model_calls >= 2
  /\ Len(opens) = 1
  /\ interp_result.kwargs.type # opens[1].type
  /\ interp_result.kwargs.constituents # opens[1].constituents
  /\ interp_result.dataset.type = opens[1].type

\* the grid with one column before it and one after it
padded_once(x) ==
  /\ Len(x) = Len(grid_x) + 2
  /\ SubSeq(x, 2, Len(x) - 1) = grid_x
  /\ x[1] = grid_x[1] - (grid_x[2] - grid_x[1])
  /\ x[Len(x)] = grid_x[Len(grid_x)] + (grid_x[2] - grid_x[1])

\* C22: a global geographic grid is padded by exactly one column on each
\* side however many times interp is called, through Model.interp and
\* through Dataset.interp; a grid that is not global is never padded.
C22_PaddedOnce ==
  LET global == geographic /\ grid_x[Len(grid_x)] - grid_x[1]
                                = 360 - (grid_x[2] - grid_x[1])
  IN  /\ model_calls > 0 =>
           IF global THEN padded_once(stored.x) ELSE stored.x = grid_x
      /\ dataset_calls > 0 =>
           IF global THEN padded_once(tmd_x) ELSE tmd_x = grid_x

C22_Witness ==
  /\ model_calls >= 2
  /\ dataset_calls >= 2
  /\ padded_once(stored.x)
  /\ padded_once(tmd_x)

----------------------------------------------------------------------------
(* Properties of the downloads *)

\* C23: a download that succeeds writes the local file if and only if a
\* local path is given and the hash supplied differs from the MD5 of the
\* bytes downloaded; with equal hashes the local file is as it was; the
\* buffer returned holds the whole remote content and stands at its start.
C23_LocalFileWrittenWhenStale ==
  (downloadPc = "done" /\ download_raised = "None") =>
    /\ file_writes = 1 <=>
         (local_given /\ hash_arg # hexdigest(remote_content))
    /\ file_writes \in {0, 1}
    /\ file_writes = 0 => local_file = local_before
    /\ file_writes = 1 => local_file.bytes = remote_content
    /\ remote_buffer = [value |-> remote_content, pos |-> 0]

C23_Witness ==
  /\ downloadPc = "done"
  /\ download_raised = "None"
  /\ local_given
  /\ local_before.exists
  /\ hash_arg = hexdigest(remote_content)
  /\ Len(remote_content) > chunk
  /\ local_file = local_before

\* C24: a call of elevation, current or grid that raises 'Unlisted tide
\* model' leaves the model object as it was before the call.
C24_FailedCallLeavesTheModel ==
  (modelPc \in {"elevation", "current", "grid"}
     /\ model_raised = "Unlisted tide model") =>
    tide_model = model_init(directory, compressed)

\* the file of a constituent of FES2014
FES2014_file_of(c) == (IF c = "lambda2" THEN "la2" ELSE c) \o ".nc"

\* C27: current('FES2014') gives a model whose model_file has under u and
\* under v one file for each of the 34 constituents, in their order, in the
\* directories eastward_velocity and northward_velocity.
C27_CurrentFilesOfFES2014 ==
  (modelPc = "current" /\ model_name = "FES2014") =>
    LET gzip == IF compressed THEN ".gz" ELSE ""
        files(d) ==
          [i \in DOMAIN FES2014_constituents |->
             directory \o "/fes2014/" \o d \o "/"
               \o FES2014_file_of(FES2014_constituents[i]) \o gzip]
    IN  /\ model_raised = "None"
        /\ Len(FES2014_constituents) = 34
        /\ tide_model.constituents = Py("list", FES2014_constituents)
        /\ tide_model.model_file =
             py_dict(<<"u", "v">>, Py("list", files("eastward_velocity")),
                     Py("list", files("northward_velocity")))

----------------------------------------------------------------------------
(* Properties of the ATLAS netCDF files *)

\* C26: a type 'z' Dataset written with to_netcdf and read back with
\* open_atlas_dataset has the harmonic constants that were written, real
\* and imaginary part alike.
C26_AtlasRoundTrips ==
  /\ atlasPc \in {"written", "read"} => atlas_raised = "None"
  /\ atlasPc = "read" =>
       \E i \in DOMAIN atlas_ds : atlas_read = <<atlas_ds[i]>>

----------------------------------------------------------------------------
(* Properties of read_ascii_file *)

\* C28: read_ascii_file fills every row, reads two lines for each block of
\* at most 30 values and no line of the next row or beyond the file, for
\* every nlon from 1 on, below 30 and a multiple of 30 included.
C28_EveryRowFilled ==
  asciiPc = "read" =>
    /\ ascii_read.raised = "None"
    /\ ascii_read.rows = nlat
    /\ ascii_read.i1 = HeaderLines + Len(file_contents)
    /\ ~ ascii_read.next_row

----------------------------------------------------------------------------
(* Properties of read_iers_EOP *)

\* C29: for every file the loop of read_iers_EOP ends without reading
\* beyond the last line, a file of lines that all carry the flag I
\* included, and the MJD, x and y returned are as long as each other.
C29_LoopEndsWithinTheFile ==
  /\ eop_counter <= Len(eop_lines)
  /\ eopPc = "done" =>
       /\ eop_raised = "None"
       /\ dinput.MJD = dinput.x
       /\ dinput.x = dinput.y

----------------------------------------------------------------------------
(* Properties of url_split *)

\* C30: url_split ends for every string and returns a tuple of path
\* components, for a string that begins with two slashes or more, for the
\* empty string and for '/' as for any other.
C30_UrlSplitReturns ==
  urlPc = "done" =>
    /\ url_raised = "None"
    /\ Len(url_result) >= 1

----------------------------------------------------------------------------
(* Specifications: one per part of the library; the variables of the      *)
(* other parts stay as they are when the module is imported               *)

NamesIdle ==
  /\ name = <<>>
  /\ constituent = <<>>
  /\ parsed = None
  /\ reparsed = None
  /\ namePc = "idle"

DoodsonIdle ==
  /\ key = "None"
  /\ isstr = FALSE
  /\ constituents = <<>>
  /\ numbers = <<>>
  /\ coefficients = <<>>
  /\ constituent_id = "None"
  /\ doodsonPc = "idle"

DatasetIdle ==
  /\ data_vars = <<>>
  /\ method = "None"
  /\ subset_c = [kind |-> "None", names |-> <<>>]
  /\ output = <<>>
  /\ exception = "None"
  /\ datasetPc = "idle"

ComputeIdle ==
  /\ function = "None"
  /\ CORRECTIONS = "None"
  /\ INFER_MINOR = FALSE
  /\ MINOR_CONSTITUENTS = [none |-> TRUE, list |-> <<>>]
  /\ delta_time = <<>>
  /\ model_corrections = "None"
  /\ deltat = <<>>
  /\ interp_calls = 0
  /\ predict_calls = <<>>
  /\ infer_calls = <<>>
  /\ raised = "None"
  /\ computePc = "idle"
  /\ DIRECTORY = "None"
  /\ MODEL = "None"
  /\ CONSTITUENTS = [kind |-> "None", names |-> <<>>]
  /\ TYPE = "None"
  /\ x_arg = [kind |-> "None", v |-> <<>>]
  /\ y_arg = [kind |-> "None", v |-> <<>>]
  /\ ds_constituents = <<>>
  /\ XY = NoCoordinates
  /\ tide = "None"

FESIdle ==
  /\ ilon = <<>>
  /\ ilat = <<>>
  /\ hc_mask = <<>>
  /\ fes_method = "None"
  /\ extrapolate = FALSE
  /\ cutoff = 0
  /\ amplitude_mask = <<>>
  /\ ph_mask = <<>>
  /\ tide_mask = <<>>
  /\ interpolated_mask = <<>>
  /\ interpolate_raised = "None"
  /\ fesPc = "idle"

PredictIdle ==
  /\ pair = <<>>
  /\ harmonic_constants = <<>>
  /\ tide_time = 0
  /\ convention = "None"
  /\ predicted = <<>>
  /\ predictPc = "idle"

PhaseIdle ==
  /\ hc_value = [re |-> 0, im |-> 0]
  /\ angle = 0
  /\ operation = "None"
  /\ amplitude_out = 0
  /\ phase_out = 0
  /\ phasePc = "idle"

ModelIdle ==
  /\ directory = "None"
  /\ compressed = FALSE
  /\ model_name = "None"
  /\ tide_model = model_init("None", FALSE)
  /\ fields = <<>>
  /\ definition = <<>>
  /\ loaded = model_init("None", FALSE)
  /\ model_raised = "None"
  /\ modelPc = "idle"

InterpIdle ==
  /\ grid_x = <<>>
  /\ geographic = FALSE
  /\ stored = NoDataset
  /\ opens = <<>>
  /\ tmd_x = <<>>
  /\ interp_result = [kwargs |-> NoKwargs, dataset |-> NoDataset]
  /\ model_calls = 0
  /\ dataset_calls = 0

DownloadIdle ==
  /\ remote_content = <<>>
  /\ reachable = FALSE
  /\ local_given = FALSE
  /\ hash_arg = ""
  /\ chunk = 1
  /\ local_before = NoFile
  /\ local_file = NoFile
  /\ remote_buffer = [value |-> <<>>, pos |-> 0]
  /\ file_writes = 0
  /\ download_raised = "None"
  /\ downloadPc = "idle"

AtlasIdle ==
  /\ atlas_ds = <<>>
  /\ atlas_directory = <<>>
  /\ atlas_read = <<>>
  /\ atlas_raised = "None"
  /\ atlasPc = "idle"

AsciiIdle ==
  /\ nlon = 0
  /\ nlat = 0
  /\ file_contents = <<>>
  /\ ascii_read = NotRead
  /\ asciiPc = "idle"

EOPIdle ==
  /\ eop_lines = <<>>
  /\ eop_flag = "I"
  /\ eop_counter = 0
  /\ dinput = [MJD |-> 0, x |-> 0, y |-> 0]
  /\ eop_raised = "None"
  /\ eopPc = "idle"

UrlIdle ==
  /\ url = <<>>
  /\ url_s = <<>>
  /\ url_tails = <<>>
  /\ url_depth = 0
  /\ url_result = <<>>
  /\ url_raised = "None"
  /\ urlPc = "idle"

InitNames ==
  /\ NamesInit
  /\ DoodsonIdle
  /\ DatasetIdle
  /\ ComputeIdle
  /\ FESIdle
  /\ PredictIdle
  /\ PhaseIdle
  /\ ModelIdle
  /\ InterpIdle
  /\ DownloadIdle
  /\ AtlasIdle
  /\ AsciiIdle
  /\ EOPIdle
  /\ UrlIdle

InitDoodson ==
  /\ DoodsonInit
  /\ NamesIdle
  /\ DatasetIdle
  /\ ComputeIdle
  /\ FESIdle
  /\ PredictIdle
  /\ PhaseIdle
  /\ ModelIdle
  /\ InterpIdle
  /\ DownloadIdle
  /\ AtlasIdle
  /\ AsciiIdle
  /\ EOPIdle
  /\ UrlIdle

InitDataset ==
  /\ DatasetInit
  /\ NamesIdle
  /\ DoodsonIdle
  /\ ComputeIdle
  /\ FESIdle
  /\ PredictIdle
  /\ PhaseIdle
  /\ ModelIdle
  /\ InterpIdle
  /\ DownloadIdle
  /\ AtlasIdle
  /\ AsciiIdle
  /\ EOPIdle
  /\ UrlIdle

InitCompute ==
  /\ ComputeInit
  /\ NamesIdle
  /\ DoodsonIdle
  /\ DatasetIdle
  /\ FESIdle
  /\ PredictIdle
  /\ PhaseIdle
  /\ ModelIdle
  /\ InterpIdle
  /\ DownloadIdle
  /\ AtlasIdle
  /\ AsciiIdle
  /\ EOPIdle
  /\ UrlIdle

InitFES ==
  /\ FESInit
  /\ NamesIdle
  /\ DoodsonIdle
  /\ DatasetIdle
  /\ ComputeIdle
  /\ PredictIdle
  /\ PhaseIdle
  /\ ModelIdle
  /\ InterpIdle
  /\ DownloadIdle
  /\ AtlasIdle
  /\ AsciiIdle
  /\ EOPIdle
  /\ UrlIdle

InitPredict ==
  /\ PredictInit
  /\ NamesIdle
  /\ DoodsonIdle
  /\ DatasetIdle
  /\ ComputeIdle
  /\ FESIdle
  /\ PhaseIdle
  /\ ModelIdle
  /\ InterpIdle
  /\ DownloadIdle
  /\ AtlasIdle
  /\ AsciiIdle
  /\ EOPIdle
  /\ UrlIdle

InitPhase ==
  /\ PhaseInit
  /\ NamesIdle
  /\ DoodsonIdle
  /\ DatasetIdle
  /\ ComputeIdle
  /\ FESIdle
  /\ PredictIdle
  /\ ModelIdle
  /\ InterpIdle
  /\ DownloadIdle
  /\ AtlasIdle
  /\ AsciiIdle
  /\ EOPIdle
  /\ UrlIdle

InitModel ==
  /\ ModelInit
  /\ NamesIdle
  /\ DoodsonIdle
  /\ DatasetIdle
  /\ ComputeIdle
  /\ FESIdle
  /\ PredictIdle
  /\ PhaseIdle
  /\ InterpIdle
  /\ DownloadIdle
  /\ AtlasIdle
  /\ AsciiIdle
  /\ EOPIdle
  /\ UrlIdle

InitInterp ==
  /\ InterpInit
  /\ NamesIdle
  /\ DoodsonIdle
  /\ DatasetIdle
  /\ ComputeIdle
  /\ FESIdle
  /\ PredictIdle
  /\ PhaseIdle
  /\ ModelIdle
  /\ DownloadIdle
  /\ AtlasIdle
  /\ AsciiIdle
  /\ EOPIdle
  /\ UrlIdle

InitDownload ==
  /\ DownloadInit
  /\ NamesIdle
  /\ DoodsonIdle
  /\ DatasetIdle
  /\ ComputeIdle
  /\ FESIdle
  /\ PredictIdle
  /\ PhaseIdle
  /\ ModelIdle
  /\ InterpIdle
  /\ AtlasIdle
  /\ AsciiIdle
  /\ EOPIdle
  /\ UrlIdle

InitAtlas ==
  /\ AtlasInit
  /\ NamesIdle
  /\ DoodsonIdle
  /\ DatasetIdle
  /\ ComputeIdle
  /\ FESIdle
  /\ PredictIdle
  /\ PhaseIdle
  /\ ModelIdle
  /\ InterpIdle
  /\ DownloadIdle
  /\ AsciiIdle
  /\ EOPIdle
  /\ UrlIdle

InitAscii ==
  /\ AsciiInit
  /\ NamesIdle
  /\ DoodsonIdle
  /\ DatasetIdle
  /\ ComputeIdle
  /\ FESIdle
  /\ PredictIdle
  /\ PhaseIdle
  /\ ModelIdle
  /\ InterpIdle
  /\ DownloadIdle
  /\ AtlasIdle
  /\ EOPIdle
  /\ UrlIdle

InitEOP ==
  /\ EOPInit
  /\ NamesIdle
  /\ DoodsonIdle
  /\ DatasetIdle
  /\ ComputeIdle
  /\ FESIdle
  /\ PredictIdle
  /\ PhaseIdle
  /\ ModelIdle
  /\ InterpIdle
  /\ DownloadIdle
  /\ AtlasIdle
  /\ AsciiIdle
  /\ UrlIdle

InitUrl ==
  /\ UrlInit
  /\ NamesIdle
  /\ DoodsonIdle
  /\ DatasetIdle
  /\ ComputeIdle
  /\ FESIdle
  /\ PredictIdle
  /\ PhaseIdle
  /\ ModelIdle
  /\ InterpIdle
  /\ DownloadIdle
  /\ AtlasIdle
  /\ AsciiIdle
  /\ EOPIdle

SpecNames == InitNames /\ [][NamesNext]_vars

SpecDoodson == InitDoodson /\ [][DoodsonNext]_vars

SpecDataset == InitDataset /\ [][DatasetNext]_vars

SpecCompute == InitCompute /\ [][ComputeNext]_vars

SpecFES == InitFES /\ [][FESNext]_vars

SpecPredict == InitPredict /\ [][PredictNext]_vars

SpecPhase == InitPhase /\ [][PhaseNext]_vars

SpecModel == InitModel /\ [][ModelNext]_vars

SpecInterp == InitInterp /\ [][InterpNext]_vars

SpecDownload == InitDownload /\ [][DownloadNext]_vars

SpecAtlas == InitAtlas /\ [][AtlasNext]_vars

SpecAscii == InitAscii /\ [][AsciiNext]_vars

SpecEOP == InitEOP /\ [][EOPNext]_vars

SpecUrl == InitUrl /\ [][UrlNext]_vars

====
